---- MODULE Spec2Model ----
(***************************************************************************)
(* Model of the FRIES distributed sparse vector (DistVec / Adder,          *)
(* FRIES/vec_utils.hpp) and of the stochastic compression routines         *)
(* (FRIES/compress_utils.cpp).                                             *)
(*                                                                         *)
(* Vector values and compression weights are doubles in the program; the   *)
(* model uses exact integer multiples of a unit (and exact rationals kept  *)
(* as numerator/denominator), so round-off is outside the model.           *)
(***************************************************************************)
EXTENDS Integers, Sequences, FiniteSets, TLC

(***************************************************************************)
(* Configuration of the modelled run                                       *)
(***************************************************************************)
NProcs == 2          \* number of MPI processes (shards)
n_bits == 3          \* bits per vector index
n_elec == 2          \* electrons (set bits) per vector index
NVecs == 2           \* value columns stored in one DistVec
InitSize == 1        \* constructor argument size (initial max_size_)
AdderSize == 1       \* elements per destination in the Adder buffers
MaxKeys == 3         \* number of distinct indices the drivers draw from
MaxOps == 5          \* number of operations in one run
LoadTol == 1         \* the 1e-9 cut of load(), in units of the stored values

Procs == 0 .. (NProcs - 1)
VecIdx == 0 .. (NVecs - 1)
NaN == -1            \* NAN: no diagonal matrix element of the model has this value
NoOrbs == << >>

Pow2(n) == 2 ^ n
Abs(x) == IF x < 0 THEN -x ELSE x
CEILING(x, y) == (x + y - 1) \div y

\* bytes per stored index, and per buffered index (one more bit for the flag)
KeyBytes == CEILING(n_bits, 8)
AddBytes == CEILING(n_bits + 1, 8)

(***************************************************************************)
(* Bit strings: an index is the integer whose binary digits are its bits   *)
(***************************************************************************)
read_bit(bit_str, bit_idx) == (bit_str \div Pow2(bit_idx)) % 2

zero_bit(bit_str, bit_idx) ==
    IF read_bit(bit_str, bit_idx) = 1 THEN bit_str - Pow2(bit_idx) ELSE bit_str

set_bit(bit_str, bit_idx) ==
    IF read_bit(bit_str, bit_idx) = 1 THEN bit_str ELSE bit_str + Pow2(bit_idx)

\* the first n_bytes bytes of a bit string
memcpy(bit_str, n_bytes) == bit_str % Pow2(8 * n_bytes)

RECURSIVE SortedSeq(_)
SortedSeq(S) ==
    IF S = {} THEN << >>
    ELSE LET m == CHOOSE x \in S : \A y \in S : x <= y
         IN <<m>> \o SortedSeq(S \ {m})

\* positions of the set bits in the first n_bytes bytes, ascending
find_bits(bit_str, n_bytes) ==
    SortedSeq({b \in 0 .. (8 * n_bytes - 1) : read_bit(bit_str, b) = 1})

gen_orb_list(det) == find_bits(det, KeyBytes)

\* indices with the right number of electrons
ValidKeys == {k \in 0 .. (Pow2(n_bits) - 1) : Len(gen_orb_list(k)) = n_elec}

RECURSIVE Smallest(_, _)
Smallest(S, n) ==
    IF n = 0 \/ S = {} THEN {}
    ELSE LET m == CHOOSE x \in S : \A y \in S : x <= y
         IN {m} \cup Smallest(S \ {m}, n - 1)

InputKeys == Smallest(ValidKeys, MaxKeys)

(***************************************************************************)
(* HashTable (FRIES/det_hash.hpp): keyed hash and index table              *)
(***************************************************************************)
\* scrambler common to all processes
rns_common == [b \in 0 .. (8 * AddBytes - 1) |-> b + 1]

RECURSIVE hash_sum(_, _, _)
hash_sum(orbs, scrambler, i) ==
    IF i = 0 THEN 0
    ELSE hash_sum(orbs, scrambler, i - 1) + i * scrambler[orbs[i]]

hash_fxn(orbs, n, scrambler) == hash_sum(orbs, scrambler, n)

\* the table is a map from stored index to position; -1 is the pending marker
Pending == -1
ht_has(ht, key) == key \in DOMAIN ht
ht_read(ht, key, insert) ==
    IF ht_has(ht, key) THEN ht
    ELSE IF insert THEN (key :> Pending) @@ ht
    ELSE ht
ht_set(ht, key, pos) == [ht EXCEPT ![key] = pos]
del_entry(ht, key) == [k \in (DOMAIN ht) \ {key} |-> ht[k]]
EmptyTable == [k \in {} |-> 0]

(***************************************************************************)
(* State                                                                   *)
(***************************************************************************)
VARIABLES
    vec,        \* vec[p]: the DistVec object of process p (a record of its fields)
    send_,      \* send_[p][q]: Adder send buffer of p for destination q,
                \*   a sequence of <<buffered index, value>>; its length is send_cts_
    err,        \* "none", or the fatal error that ended the run
    nops,       \* operations performed so far
    disk,       \* the files written by save(): per process dets, vals and dense.txt
    saved,      \* history: the (index, values) pairs of the active slots at save()
    loaded,     \* history: the last operation was load()
    comp,       \* the collective run under study: the compression of SpecComp,
                \*   SpecRounds and SpecSub, or multi_dot of SpecDot
    alias,      \* the alias table run (setup_alias, sample_alias) of SpecAlias
    add_size,   \* the size given to the constructor of the Adder
    made,       \* history: made[p] is the sequence of the slots that add_elements
                \*   created on process p in the last operation
    wire        \* one index on its way through Adder::add and add_elements (SpecFlag)

vars == <<vec, send_, err, nops, disk, saved, loaded, made, comp, alias, add_size, wire>>

Idle == [phase |-> "idle"]

ZeroOrbs == [i \in 1 .. n_elec |-> 0]

\* DistVec constructor, vec_utils.hpp:154-172
DistVecInit(size) ==
    [ values_       |-> [r \in VecIdx |-> [c \in 0 .. (size - 1) |-> 0]],
      curr_vec_idx_ |-> 0,
      n_dense_      |-> 0,
      vec_stack_    |-> << >>,
      n_nonz_       |-> 0,
      min_del_idx_  |-> 0,
      indices_      |-> [c \in 0 .. (size - 1) |-> 0],
      max_size_     |-> size,
      curr_size_    |-> 0,
      occ_orbs_     |-> [c \in 0 .. (size - 1) |-> ZeroOrbs],
      vec_hash_     |-> EmptyTable,
      nonini_occ_add |-> 0,
      matr_el_      |-> [c \in 0 .. (size - 1) |-> 0],
      active_pos_   |-> [c \in 0 .. (size - 1) |-> FALSE] ]

\* Adder constructor: every send count is zero
AdderInit == [p \in Procs |-> [q \in Procs |-> << >>]]

NoDisk == [written |-> FALSE]

NoSlots == [p \in Procs |-> << >>]

(***************************************************************************)
(* Matrix (FRIES/ndarr.hpp): row-major storage                             *)
(***************************************************************************)
\* a reshape that does not move the rows to their new places
enlarge_cols_flat(mat, old_cols, new_col, n_keep) ==
    [r \in VecIdx |->
        [c \in 0 .. (new_col - 1) |->
            IF r * new_col + c < NVecs * old_cols
            THEN mat[(r * new_col + c) \div old_cols][(r * new_col + c) % old_cols]
            ELSE 0]]

\* enlarge_cols: reshape without moving data, then copy the first n_keep
\* elements of every row to the row's new place; the other cells keep what
\* the flat storage held (zero where the storage is new)
enlarge_cols(mat, old_cols, new_col, n_keep) ==
    LET old_tot == NVecs * old_cols
        flat(x) == IF x < old_tot THEN mat[x \div old_cols][x % old_cols] ELSE 0
    IN [r \in VecIdx |->
          [c \in 0 .. (new_col - 1) |->
              IF c < n_keep THEN mat[r][c] ELSE flat(r * new_col + c)]]

\* reshape of a one-column-block matrix by rows, and std::vector::resize:
\* existing entries stay, new entries are value-initialised
resize(arr, old_n, new_n, fill) ==
    [c \in 0 .. (new_n - 1) |-> IF c < old_n THEN arr[c] ELSE fill]

(***************************************************************************)
(* DistVec methods, as functions of one process's object v                 *)
(***************************************************************************)
expand(v) ==
    LET new_max == v.max_size_ * 2
    IN [v EXCEPT
          !.indices_ = resize(v.indices_, v.max_size_, new_max, 0),
          !.active_pos_ = resize(v.active_pos_, v.max_size_, new_max, FALSE),
          !.matr_el_ = resize(v.matr_el_, v.max_size_, new_max, 0),
          !.occ_orbs_ = resize(v.occ_orbs_, v.max_size_, new_max, ZeroOrbs),
          !.values_ = enlarge_cols(v.values_, v.max_size_, new_max, v.curr_size_),
          !.max_size_ = new_max]

idx_to_proc(idx) ==
    hash_fxn(gen_orb_list(idx), n_elec, rns_common) % NProcs

\* idx_to_hash throws when the index has the wrong number of electrons
idx_to_hash_ok(idx) == Len(gen_orb_list(idx)) = n_elec

\* an initialisation that leaves the cached diagonal element as it was
initialize_at_pos_stale(v, pos, orbs) ==
    [v EXCEPT
       !.values_ = [r \in VecIdx |-> [v.values_[r] EXCEPT ![pos] = 0]],
       !.active_pos_ = [v.active_pos_ EXCEPT ![pos] = TRUE],
       !.occ_orbs_ = [v.occ_orbs_ EXCEPT ![pos] = orbs]]

initialize_at_pos(v, pos, orbs) ==
    [v EXCEPT
       !.values_ = [r \in VecIdx |-> [v.values_[r] EXCEPT ![pos] = 0]],
       !.matr_el_ = [v.matr_el_ EXCEPT ![pos] = NaN],
       !.active_pos_ = [v.active_pos_ EXCEPT ![pos] = TRUE],
       !.occ_orbs_ = [v.occ_orbs_ EXCEPT ![pos] = orbs]]

\* a test that reads the current column only
all_zero_curr(v, pos) == v.values_[v.curr_vec_idx_][pos] = 0

all_zero(v, pos) == \A r \in VecIdx : v.values_[r][pos] = 0

\* a removal that leaves the entry of the hash table behind
del_at_pos_keep_hash(v, pos) ==
    IF ~v.active_pos_[pos] THEN v
    ELSE IF pos >= v.min_del_idx_ /\ all_zero(v, pos)
    THEN [v EXCEPT
            !.vec_stack_ = Append(v.vec_stack_, pos),
            !.n_nonz_ = v.n_nonz_ - 1,
            !.active_pos_ = [v.active_pos_ EXCEPT ![pos] = FALSE]]
    ELSE v

\* a removal that does not look at the values
del_at_pos_any(v, pos) ==
    IF ~v.active_pos_[pos] THEN v
    ELSE IF pos >= v.min_del_idx_
    THEN [v EXCEPT
            !.vec_stack_ = Append(v.vec_stack_, pos),
            !.vec_hash_ = del_entry(v.vec_hash_, v.indices_[pos]),
            !.n_nonz_ = v.n_nonz_ - 1,
            !.active_pos_ = [v.active_pos_ EXCEPT ![pos] = FALSE]]
    ELSE v

\* a removal that does not test whether the slot is active
del_at_pos_twice(v, pos) ==
    IF pos >= v.min_del_idx_ /\ all_zero(v, pos)
    THEN [v EXCEPT
            !.vec_stack_ = Append(v.vec_stack_, pos),
            !.vec_hash_ = del_entry(v.vec_hash_, v.indices_[pos]),
            !.n_nonz_ = v.n_nonz_ - 1,
            !.active_pos_ = [v.active_pos_ EXCEPT ![pos] = FALSE]]
    ELSE v

del_at_pos(v, pos) ==
    IF ~v.active_pos_[pos] THEN v
    ELSE IF pos >= v.min_del_idx_ /\ all_zero(v, pos)
    THEN [v EXCEPT
            !.vec_stack_ = Append(v.vec_stack_, pos),
            !.vec_hash_ = del_entry(v.vec_hash_, v.indices_[pos]),
            !.n_nonz_ = v.n_nonz_ - 1,
            !.active_pos_ = [v.active_pos_ EXCEPT ![pos] = FALSE]]
    ELSE v

RECURSIVE cleanup_from(_, _)
cleanup_from(v, pos) ==
    IF pos >= v.curr_size_ THEN v
    ELSE cleanup_from(IF all_zero(v, pos) THEN del_at_pos(v, pos) ELSE v, pos + 1)

cleanup(v) == cleanup_from(v, v.min_del_idx_)

\* an admission rule that lets every contribution through
should_add_always(ini_flag, nonz) == TRUE

\* the initiator rule: bool should_add = ini_flag || nonz
should_add(ini_flag, nonz) == ini_flag = 1 \/ nonz

\* one pass of the loop of add_elements: the buffered index new_idx with
\* value val; the result holds the new object and the value left in vals[]
add_element(v, buf_idx, val, origin) ==
    LET ini_flag == read_bit(buf_idx, n_bits)
        new_idx == IF ini_flag = 1 THEN zero_bit(buf_idx, n_bits) ELSE buf_idx
        key == memcpy(new_idx, KeyBytes)
        tmp_occ == gen_orb_list(new_idx)
        found == ht_has(v.vec_hash_, key)
        ht == ht_read(v.vec_hash_, key, ini_flag = 1)
        has_ptr == ht_has(ht, key)
        create == has_ptr /\ ht[key] = Pending
        from_stack == v.vec_stack_ /= << >>
        v1 == IF create /\ ~from_stack /\ v.curr_size_ >= v.max_size_
              THEN expand(v) ELSE v
        pos == IF ~create THEN (IF has_ptr THEN ht[key] ELSE -1)
               ELSE IF from_stack THEN v.vec_stack_[Len(v.vec_stack_)]
               ELSE v.curr_size_
        v2 == IF ~create THEN v1
              ELSE LET v1a == [v1 EXCEPT
                                 !.vec_hash_ = ht_set(ht, key, pos),
                                 !.vec_stack_ = IF from_stack
                                     THEN SubSeq(v.vec_stack_, 1, Len(v.vec_stack_) - 1)
                                     ELSE v.vec_stack_,
                                 !.curr_size_ = IF from_stack THEN v.curr_size_
                                                ELSE v.curr_size_ + 1,
                                 !.indices_ = [v1.indices_ EXCEPT ![pos] = key],
                                 !.n_nonz_ = v.n_nonz_ + 1]
                   IN initialize_at_pos(v1a, pos, tmp_occ)
        nonz == v2.values_[origin][pos] /= 0
        v3 == IF ~has_ptr THEN v2
              ELSE [v2 EXCEPT
                      !.nonini_occ_add = @ + (IF ini_flag = 0 /\ nonz THEN 1 ELSE 0),
                      !.values_[v2.curr_vec_idx_][pos] =
                          IF should_add(ini_flag, nonz) THEN @ + val ELSE @]
    IN IF ~idx_to_hash_ok(new_idx)
       THEN [v |-> v, val |-> val, err |-> TRUE]
       ELSE [v |-> v3, val |-> IF has_ptr THEN 0 ELSE val, err |-> FALSE]

\* add_elements over a received batch (a sequence of <<buffered index, value>>)
RECURSIVE add_elements(_, _, _)
add_elements(v, batch, origin) ==
    IF batch = << >> THEN [v |-> v, err |-> FALSE]
    ELSE LET r == add_element(v, batch[1][1], batch[1][2], origin)
         IN IF r.err THEN [v |-> r.v, err |-> TRUE]
            ELSE add_elements(r.v, Tail(batch), origin)

\* history of one pass of the loop of add_elements that took v to w: the
\* slot it created for key, if it created one.  top is the top of the free
\* stack before the pass (-1 if the stack was empty), size the old
\* curr_size_, old_key and cached what the position held before; values,
\* matr_el and occ_orbs are what the position holds after the pass.
\* the positions below curr_size_ of v hold in w what they hold in v
same_below(v, w) ==
    \A pos \in 0 .. (v.curr_size_ - 1) :
       /\ w.indices_[pos] = v.indices_[pos]
       /\ w.occ_orbs_[pos] = v.occ_orbs_[pos]
       /\ w.matr_el_[pos] = v.matr_el_[pos]
       /\ w.active_pos_[pos] = v.active_pos_[pos]
       /\ \A r \in VecIdx : w.values_[r][pos] = v.values_[r][pos]

slot_made(v, w, key, val) ==
    IF ht_has(v.vec_hash_, key) \/ ~ht_has(w.vec_hash_, key) THEN << >>
    ELSE <<[pos |-> w.vec_hash_[key],
            key |-> key,
            val |-> val,
            top |-> IF v.vec_stack_ = << >> THEN -1
                    ELSE v.vec_stack_[Len(v.vec_stack_)],
            size |-> v.curr_size_,
            new_size |-> w.curr_size_,
            grown |-> w.max_size_ /= v.max_size_,
            full |-> v.curr_size_ >= v.max_size_,
            doubled |-> w.max_size_ = 2 * v.max_size_,
            kept |-> same_below(v, w),
            old_key |-> IF w.vec_hash_[key] < v.max_size_
                        THEN v.indices_[w.vec_hash_[key]] ELSE 0,
            cached |-> IF w.vec_hash_[key] < v.max_size_
                       THEN v.matr_el_[w.vec_hash_[key]] ELSE 0,
            curr |-> w.curr_vec_idx_,
            values |-> [r \in VecIdx |-> w.values_[r][w.vec_hash_[key]]],
            matr_el |-> w.matr_el_[w.vec_hash_[key]],
            occ_orbs |-> w.occ_orbs_[w.vec_hash_[key]]]>>

RECURSIVE created(_, _, _)
\* the slot made by the first element of the batch, which took v to r.v,
\* and the slots made by the rest of the batch
created_from(v, r, batch, origin) ==
    IF r.err THEN << >>
    ELSE slot_made(v, r.v, memcpy(zero_bit(batch[1][1], n_bits), KeyBytes), batch[1][2])
            \o created(r.v, Tail(batch), origin)

\* history of add_elements over a received batch: the slots it created
created(v, batch, origin) ==
    IF batch = << >> THEN << >>
    ELSE CHOOSE c \in {created_from(v, r, batch, origin) :
                          r \in {add_element(v, batch[1][1], batch[1][2], origin)}} : TRUE

(***************************************************************************)
(* The cached diagonal matrix elements                                     *)
(***************************************************************************)
RECURSIVE diag_sum(_, _)
diag_sum(orbs, i) ==
    IF i = 0 THEN 0 ELSE diag_sum(orbs, i - 1) + (orbs[i] + 1) * (orbs[i] + 1)

\* diag_calc_: a function of the list of occupied orbitals
diag_calc(orbs) == diag_sum(orbs, Len(orbs))

\* matr_el_at_pos: the object afterwards and the value returned
matr_el_at_pos(v, pos) ==
    IF v.matr_el_[pos] = NaN
    THEN [v |-> [v EXCEPT !.matr_el_[pos] = diag_calc(v.occ_orbs_[pos])],
          ret |-> diag_calc(v.occ_orbs_[pos])]
    ELSE [v |-> v, ret |-> v.matr_el_[pos]]

(***************************************************************************)
(* Adder::add and DistVec::add                                             *)
(***************************************************************************)
buffered_idx(idx, idx_bits, ini_flag) ==
    IF ini_flag = 1 THEN set_bit(memcpy(idx, CEILING(idx_bits, 8)), idx_bits)
    ELSE memcpy(idx, CEILING(idx_bits, 8))

adder_full(snd, proc_idx) == Len(snd[proc_idx]) >= add_size

\* every entry goes to the buffer of destination 0
adder_add_first(snd, idx, idx_bits, val, proc_idx, ini_flag) ==
    [snd EXCEPT ![0] = Append(@, <<buffered_idx(idx, idx_bits, ini_flag), val>>)]

\* the send buffers of one process after Adder::add (the caller checked adder_full)
adder_add(snd, idx, idx_bits, val, proc_idx, ini_flag) ==
    [snd EXCEPT ![proc_idx] = Append(@, <<buffered_idx(idx, idx_bits, ini_flag), val>>)]

AddVals == {-1, 1}
WriteVals == {0, 2}

Running == err = "none" /\ nops < MaxOps

\* DistVec::add(idx, val, ini_flag) called on process p
Add(p, idx, val, ini_flag) ==
    /\ Running
    /\ nops' = nops + 1
    /\ loaded' = FALSE
    /\ made' = NoSlots
    /\ UNCHANGED <<comp, alias, add_size, wire>>
    /\ UNCHANGED <<vec, disk, saved>>
    /\ IF val = 0 THEN UNCHANGED <<send_, err>>
       ELSE IF adder_full(send_[p], idx_to_proc(idx))
       THEN err' = "adder_full" /\ UNCHANGED send_
       ELSE /\ send_' = [send_ EXCEPT
                    ![p] = adder_add(@, idx, n_bits, val, idx_to_proc(idx), ini_flag)]
            /\ UNCHANGED err

(***************************************************************************)
(* Adder::perform_add: all-to-all exchange, then add_elements per batch    *)
(***************************************************************************)
\* only the batch of process proc_idx arrives
recv_all_one(snd, q, proc_idx) == snd[proc_idx][q]

RECURSIVE recv_all(_, _, _)
\* what process q receives: the batches of processes proc_idx .. NProcs-1 in turn
recv_all(snd, q, proc_idx) ==
    IF proc_idx >= NProcs THEN << >>
    ELSE snd[proc_idx][q] \o recv_all(snd, q, proc_idx + 1)

\* the object of process q after the loop of vec_utils.hpp:1007-1009
perform_add_on(v, snd, q, origin) == add_elements(v, recv_all(snd, q, 0), origin)

PerformAdd(origin) ==
    /\ Running
    /\ nops' = nops + 1
    /\ loaded' = FALSE
    /\ made' = [q \in Procs |-> created(vec[q], recv_all(send_, q, 0), origin)]
    /\ UNCHANGED <<comp, alias, add_size, wire>>
    /\ \E res \in {[q \in Procs |-> perform_add_on(vec[q], send_, q, origin)]} :
          /\ vec' = [q \in Procs |-> res[q].v]
          /\ err' = IF \E q \in Procs : res[q].err THEN "bad_index" ELSE "none"
          /\ send_' = IF \E q \in Procs : res[q].err THEN send_ ELSE AdderInit
    /\ UNCHANGED <<disk, saved>>

(***************************************************************************)
(* Operations on one process's object                                      *)
(***************************************************************************)
DelAtPos(p, pos) ==
    /\ Running
    /\ pos < vec[p].curr_size_
    /\ nops' = nops + 1
    /\ loaded' = FALSE
    /\ made' = NoSlots
    /\ UNCHANGED <<comp, alias, add_size, wire>>
    /\ vec' = [vec EXCEPT ![p] = del_at_pos(@, pos)]
    /\ UNCHANGED <<send_, err, disk, saved>>

Cleanup(p) ==
    /\ Running
    /\ nops' = nops + 1
    /\ loaded' = FALSE
    /\ made' = NoSlots
    /\ UNCHANGED <<comp, alias, add_size, wire>>
    /\ vec' = [vec EXCEPT ![p] = cleanup(@)]
    /\ UNCHANGED <<send_, err, disk, saved>>

set_min_del_idx(v, idx) == [v EXCEPT !.min_del_idx_ = idx]

SetMinDelIdx(p, idx) ==
    /\ Running
    /\ idx <= vec[p].curr_size_
    /\ idx /= vec[p].min_del_idx_
    /\ nops' = nops + 1
    /\ loaded' = FALSE
    /\ made' = NoSlots
    /\ UNCHANGED <<comp, alias, add_size, wire>>
    /\ vec' = [vec EXCEPT ![p] = set_min_del_idx(@, idx)]
    /\ UNCHANGED <<send_, err, disk, saved>>

set_curr_vec_idx(v, new_idx) == [v EXCEPT !.curr_vec_idx_ = new_idx]

SetCurrVecIdx(p, new_idx) ==
    /\ Running
    /\ new_idx /= vec[p].curr_vec_idx_
    /\ nops' = nops + 1
    /\ loaded' = FALSE
    /\ made' = NoSlots
    /\ UNCHANGED <<comp, alias, add_size, wire>>
    /\ vec' = [vec EXCEPT ![p] = set_curr_vec_idx(@, new_idx)]
    /\ UNCHANGED <<send_, err, disk, saved>>

\* a driver writes a value through operator[]; the drivers and sys_comp
\* write only to elements that are not zero
write_value(v, pos, val) == [v EXCEPT !.values_[v.curr_vec_idx_][pos] = val]

WriteValue(p, pos, val) ==
    /\ Running
    /\ pos < vec[p].curr_size_
    /\ vec[p].values_[vec[p].curr_vec_idx_][pos] /= 0
    /\ nops' = nops + 1
    /\ loaded' = FALSE
    /\ made' = NoSlots
    /\ UNCHANGED <<comp, alias, add_size, wire>>
    /\ vec' = [vec EXCEPT ![p] = write_value(@, pos, val)]
    /\ UNCHANGED <<send_, err, disk, saved>>

\* the death/cloning step of fciqmc_mol.cpp on a nonzero element: del_at_pos
\* runs while the old value is still stored, then the new value is written
\* (indices()[det_idx] != hf_det compares two pointers and is always true)
death_step(v, pos, new_val) ==
    write_value(IF new_val = 0 THEN del_at_pos(v, pos) ELSE v, pos, new_val)

DeathStep(p, pos, new_val) ==
    /\ Running
    /\ pos < vec[p].curr_size_
    /\ vec[p].values_[vec[p].curr_vec_idx_][pos] /= 0
    /\ nops' = nops + 1
    /\ loaded' = FALSE
    /\ made' = NoSlots
    /\ UNCHANGED <<comp, alias, add_size, wire>>
    /\ vec' = [vec EXCEPT ![p] = death_step(@, pos, new_val)]
    /\ UNCHANGED <<send_, err, disk, saved>>

\* a driver reads the diagonal matrix element of a stored element
MatrElAtPos(p, pos) ==
    /\ Running
    /\ pos < vec[p].curr_size_
    /\ nops' = nops + 1
    /\ loaded' = FALSE
    /\ made' = NoSlots
    /\ UNCHANGED <<comp, alias, add_size, wire>>
    /\ vec' = [vec EXCEPT ![p] = matr_el_at_pos(@, pos).v]
    /\ UNCHANGED <<send_, err, disk, saved>>

(***************************************************************************)
(* init_dense: the deterministic subspace                                  *)
(***************************************************************************)
\* read_dets (FRIES/io_utils.hpp) stores the indices of the file in indices_
read_dets(v, dets) ==
    [v EXCEPT !.indices_ = [c \in DOMAIN v.indices_ |->
                              IF c < Len(dets) THEN dets[c + 1] ELSE v.indices_[c]]]

RECURSIVE add_all(_, _, _)
\* the calls add(indices_[idx], 1, 1) of process 0 for idx = from .. n_loaded-1
add_all(snd, dets, from) ==
    IF from > Len(dets) THEN [snd |-> snd, err |-> FALSE]
    ELSE IF adder_full(snd, idx_to_proc(dets[from]))
    THEN [snd |-> snd, err |-> TRUE]
    ELSE add_all(adder_add(snd, dets[from], n_bits, 1, idx_to_proc(dets[from]), 1),
                 dets, from + 1)

\* lines 873-876: n_dense_ becomes curr_size_ and the dense values are zeroed
set_dense(v) ==
    [v EXCEPT !.n_dense_ = v.curr_size_,
              !.values_ = [r \in VecIdx |-> [c \in DOMAIN v.values_[r] |->
                              IF c < v.curr_size_ THEN 0 ELSE v.values_[r][c]]]]

\* the object of process q after init_dense, given the buffers filled by process 0
init_dense(v, snd, q) ==
    LET r == perform_add_on(v, snd, q, 0)
    IN [v |-> set_dense(r.v), err |-> r.err]

Fresh == /\ \A p \in Procs : vec[p] = DistVecInit(InitSize)
         /\ send_ = AdderInit

DenseLists == {SortedSeq(S) : S \in {T \in SUBSET InputKeys :
                                        Cardinality(T) >= 1 /\ Cardinality(T) <= InitSize}}

\* init_dense is called by the drivers right after construction
InitDense(dets) ==
    /\ Running
    /\ Fresh
    /\ nops' = nops + 1
    /\ loaded' = FALSE
    /\ UNCHANGED <<comp, alias, add_size, wire>>
    /\ UNCHANGED <<disk, saved>>
    /\ LET v0 == [vec EXCEPT ![0] = read_dets(@, dets)]
           a == add_all(send_[0], dets, 1)
           snd == [send_ EXCEPT ![0] = a.snd]
           res == [q \in Procs |-> init_dense(v0[q], snd, q)]
       IN IF a.err
          THEN /\ err' = "adder_full"
               /\ vec' = v0
               /\ send_' = snd
               /\ made' = NoSlots
          ELSE /\ made' = [q \in Procs |-> created(v0[q], recv_all(snd, q, 0), 0)]
               /\ vec' = [q \in Procs |-> res[q].v]
               /\ err' = IF \E q \in Procs : res[q].err THEN "bad_index" ELSE "none"
               /\ send_' = AdderInit

(***************************************************************************)
(* save and load                                                           *)
(***************************************************************************)
\* the files of one process: the first curr_size_ indices and values of every
\* column, and the entry of dense.txt
save(v) ==
    [ dets  |-> [c \in 1 .. v.curr_size_ |-> v.indices_[c - 1]],
      vals  |-> [r \in VecIdx |-> [c \in 1 .. v.curr_size_ |-> v.values_[r][c - 1]]],
      dense |-> v.n_dense_ ]

\* the (index, values) pairs of the active slots
Pairs(v) ==
    {<<v.indices_[c], [r \in VecIdx |-> v.values_[r][c]]>> :
        c \in {d \in 0 .. (v.curr_size_ - 1) : v.active_pos_[d]}}

RECURSIVE expand_to(_, _)
expand_to(v, n_dets) == IF n_dets > v.max_size_ THEN expand_to(expand(v), n_dets) ELSE v

\* lines 797-812: the files are read into indices_ and values_
read_files(v, file) ==
    LET n_dets == Len(file.dets)
    IN [v EXCEPT
          !.n_dense_ = file.dense,
          !.indices_ = [c \in DOMAIN v.indices_ |->
                          IF c < n_dets THEN file.dets[c + 1] ELSE v.indices_[c]],
          !.values_ = [r \in VecIdx |-> [c \in DOMAIN v.values_[r] |->
                          IF c < n_dets /\ r >= v.curr_vec_idx_
                          THEN file.vals[r - v.curr_vec_idx_][c + 1]
                          ELSE v.values_[r][c]]]]

\* a test without the cut: every stored position is taken
is_nonz_all(v, det_idx) == TRUE

is_nonz(v, det_idx) ==
    \/ det_idx < v.n_dense_
    \/ det_idx < v.min_del_idx_
    \/ \E r \in VecIdx : Abs(v.values_[r][det_idx]) > LoadTol

RECURSIVE load_loop(_, _, _)
\* lines 817-841
load_loop(v, det_idx, n_dets) ==
    IF det_idx >= n_dets THEN v
    ELSE IF ~is_nonz(v, det_idx) THEN load_loop(v, det_idx + 1, n_dets)
    ELSE LET new_idx == v.indices_[det_idx]
             tmp_orbs == gen_orb_list(new_idx)
             tmp_vals == [r \in VecIdx |-> v.values_[r][det_idx]]
             ht == ht_set(ht_read(v.vec_hash_, new_idx, TRUE), new_idx, v.n_nonz_)
             v1 == [v EXCEPT !.vec_hash_ = ht,
                             !.indices_ = [v.indices_ EXCEPT ![v.n_nonz_] = new_idx]]
             v2 == initialize_at_pos(v1, v.n_nonz_, tmp_orbs)
             v3 == [v2 EXCEPT
                      !.values_ = [r \in VecIdx |->
                                     [v2.values_[r] EXCEPT ![v.n_nonz_] = tmp_vals[r]]],
                      !.n_nonz_ = v.n_nonz_ + 1]
         IN load_loop(v3, det_idx + 1, n_dets)

load(v, file) ==
    LET n_dets == Len(file.dets)
        v1 == read_files(expand_to(v, n_dets), file)
        v2 == load_loop([v1 EXCEPT !.n_nonz_ = 0], 0, n_dets)
    IN [v2 EXCEPT !.curr_size_ = v2.n_nonz_]

Save ==
    /\ Running
    /\ nops' = nops + 1
    /\ loaded' = FALSE
    /\ made' = NoSlots
    /\ UNCHANGED <<comp, alias, add_size, wire>>
    /\ disk' = [written |-> TRUE, file |-> [p \in Procs |-> save(vec[p])]]
    /\ saved' = [p \in Procs |-> Pairs(vec[p])]
    /\ UNCHANGED <<vec, send_, err>>

\* a run that starts from the saved files: every process constructs its
\* DistVec and loads its files
Load ==
    /\ Running
    /\ disk.written
    /\ nops' = nops + 1
    /\ loaded' = TRUE
    /\ made' = NoSlots
    /\ UNCHANGED <<comp, alias, add_size, wire>>
    /\ vec' = [p \in Procs |-> load(DistVecInit(InitSize), disk.file[p])]
    /\ send_' = AdderInit
    /\ UNCHANGED <<err, disk, saved>>

(***************************************************************************)
(* Specifications                                                          *)
(***************************************************************************)
Init ==
    /\ vec = [p \in Procs |-> DistVecInit(InitSize)]
    /\ send_ = AdderInit
    /\ err = "none"
    /\ nops = 0
    /\ disk = NoDisk
    /\ saved = [p \in Procs |-> {}]
    /\ loaded = FALSE
    /\ made = NoSlots
    /\ comp = Idle
    /\ alias = Idle
    /\ add_size = AdderSize
    /\ wire = Idle

Next ==
    \/ \E p \in Procs, idx \in InputKeys, val \in AddVals, ini_flag \in {0, 1} :
          Add(p, idx, val, ini_flag)
    \/ \E origin \in VecIdx : PerformAdd(origin)
    \/ \E p \in Procs, pos \in 0 .. (InitSize * 4) : DelAtPos(p, pos)
    \/ \E p \in Procs : Cleanup(p)
    \/ \E p \in Procs, idx \in 0 .. (InitSize * 4) : SetMinDelIdx(p, idx)
    \/ \E p \in Procs, new_idx \in VecIdx : SetCurrVecIdx(p, new_idx)
    \/ \E p \in Procs, pos \in 0 .. (InitSize * 4), val \in WriteVals : WriteValue(p, pos, val)
    \/ \E p \in Procs, pos \in 0 .. (InitSize * 4), val \in WriteVals : DeathStep(p, pos, val)
    \/ \E dets \in DenseLists : InitDense(dets)
    \/ \E p \in Procs, pos \in 0 .. (InitSize * 4) : MatrElAtPos(p, pos)

Spec == Init /\ [][Next]_vars

NextPersist == Next \/ Save \/ Load

SpecPersist == Init /\ [][NextPersist]_vars

(***************************************************************************)
(* The overloads of DistVec::add with their return values, for every       *)
(* value and every index, also one without the n_elec electrons            *)
(***************************************************************************)
MaxBad == 1          \* number of indices with a wrong number of electrons
MaxAddOps == 3       \* number of operations in one run of SpecAdd

BadKeys == Smallest({k \in 0 .. (Pow2(n_bits) - 1) : ~idx_to_hash_ok(k)}, MaxBad)

\* the results idx_to_proc(idx) can have: with fewer than n_elec bits set,
\* gen_orb_list leaves entries of orbs[] unwritten and the hash reads them;
\* with more, it writes past the end of orbs[]
idx_to_proc_any(idx) ==
    IF idx_to_hash_ok(idx) THEN {idx_to_proc(idx)} ELSE Procs

\* Adder::add: the buffers, the returned bool, and whether it threw
Adder_add(snd, idx, idx_bits, val, proc_idx, ini_flag) ==
    IF adder_full(snd, proc_idx)
    THEN [snd |-> snd, ret |-> FALSE, thrown |-> TRUE]
    ELSE LET s1 == adder_add(snd, idx, idx_bits, val, proc_idx, ini_flag)
         IN [snd |-> s1, ret |-> Len(s1[proc_idx]) < add_size, thrown |-> FALSE]

\* bool add(uint8_t *idx, el_type val, uint8_t ini_flag)
add_val(snd, idx, val, ini_flag, proc_idx) ==
    IF val /= 0 THEN Adder_add(snd, idx, n_bits, val, proc_idx, ini_flag)
    ELSE [snd |-> snd, ret |-> TRUE, thrown |-> FALSE]

\* bool add(uint8_t *idx, uint8_t *orbs, el_type val, uint8_t ini_flag)
add_orbs(snd, idx, orbs, val, ini_flag) ==
    Adder_add(snd, idx, n_bits, val, hash_fxn(orbs, n_elec, rns_common) % NProcs, ini_flag)

AllVals == AddVals \cup {0}

AddVal(p, idx, val, ini_flag, proc_idx) ==
    /\ Running
    /\ nops' = nops + 1
    /\ loaded' = FALSE
    /\ made' = NoSlots
    /\ UNCHANGED <<comp, alias, add_size, wire>>
    /\ UNCHANGED <<vec, disk, saved>>
    /\ LET r == add_val(send_[p], idx, val, ini_flag, proc_idx)
       IN /\ send_' = [send_ EXCEPT ![p] = r.snd]
          /\ err' = IF r.thrown THEN "adder_full" ELSE err

AddOrbs(p, idx, val, ini_flag) ==
    /\ Running
    /\ nops' = nops + 1
    /\ loaded' = FALSE
    /\ made' = NoSlots
    /\ UNCHANGED <<comp, alias, add_size, wire>>
    /\ UNCHANGED <<vec, disk, saved>>
    /\ LET r == add_orbs(send_[p], idx, gen_orb_list(idx), val, ini_flag)
       IN /\ send_' = [send_ EXCEPT ![p] = r.snd]
          /\ err' = IF r.thrown THEN "adder_full" ELSE err

NextAdd ==
    \/ \E p \in Procs, idx \in InputKeys \cup BadKeys, val \in AllVals, ini_flag \in {0, 1} :
          \E proc_idx \in idx_to_proc_any(idx) : AddVal(p, idx, val, ini_flag, proc_idx)
    \/ \E p \in Procs, idx \in InputKeys, val \in AllVals, ini_flag \in {0, 1} :
          AddOrbs(p, idx, val, ini_flag)
    \/ \E origin \in VecIdx : PerformAdd(origin)
    \/ \E p \in Procs, pos \in 0 .. (InitSize * 4) : DelAtPos(p, pos)
    \/ \E p \in Procs, new_idx \in VecIdx : SetCurrVecIdx(p, new_idx)

\* a run of MaxAddOps operations
InitAdd ==
    /\ vec = [p \in Procs |-> DistVecInit(InitSize)]
    /\ send_ = AdderInit
    /\ err = "none"
    /\ nops = MaxOps - MaxAddOps
    /\ disk = NoDisk
    /\ saved = [p \in Procs |-> {}]
    /\ loaded = FALSE
    /\ made = NoSlots
    /\ comp = Idle
    /\ alias = Idle
    /\ add_size \in AdderSize .. (AdderSize + 1)
    /\ wire = Idle

SpecAdd == InitAdd /\ [][NextAdd]_vars

(***************************************************************************)
(* One index with its initiator flag from Adder::add to add_elements, for  *)
(* n_bits and for the next multiple of 8, where the flag has its own byte  *)
(***************************************************************************)
FlagWidths == {n_bits, 8 * CEILING(n_bits, 8)}

\* what the position of the send buffer can hold from an earlier use
StaleSlots(n_bytes) == {0, Pow2(8 * n_bytes) - 1}

\* Adder::add without cpy_idx[n_bytes_ - 1] = 0
adder_pack_stale(old, idx, idx_bits, ini_flag, n_bytes) ==
    LET n == CEILING(idx_bits, 8)
        c1 == memcpy(idx, n) + (old \div Pow2(8 * n)) * Pow2(8 * n)
    IN IF ini_flag = 1 THEN set_bit(c1, idx_bits) ELSE c1

\* the n_bytes bytes at cpy_idx after Adder::add, which held old before:
\* the last byte is zeroed, CEILING(idx_bits, 8) bytes are copied from idx,
\* and the bit idx_bits is set for an initiator
adder_pack(old, idx, idx_bits, ini_flag, n_bytes) ==
    LET n == CEILING(idx_bits, 8)
        c0 == old % Pow2(8 * (n_bytes - 1))
        c1 == memcpy(idx, n) + (c0 \div Pow2(8 * n)) * Pow2(8 * n)
    IN IF ini_flag = 1 THEN set_bit(c1, idx_bits) ELSE c1

\* add_elements: int ini_flag = read_bit(new_idx, n_bits_)
recv_flag(new_idx, bits) == read_bit(new_idx, bits)

\* add_elements: the index that is hashed and stored, vec_n_bytes bytes of
\* new_idx after zero_bit
recv_idx(new_idx, bits) ==
    memcpy(IF recv_flag(new_idx, bits) = 1 THEN zero_bit(new_idx, bits) ELSE new_idx,
           CEILING(bits, 8))

WireInput(bits, idx, ini_flag, old) ==
    [phase |-> "input", bits |-> bits, idx |-> idx, ini_flag |-> ini_flag,
     old |-> old, buf |-> 0, rec_idx |-> 0, rec_flag |-> 0]

\* Adder::add writes the index into the send buffer
Pack ==
    /\ wire.phase = "input"
    /\ wire' = [wire EXCEPT
                  !.phase = "packed",
                  !.buf = adder_pack(wire.old, wire.idx, wire.bits, wire.ini_flag,
                                     CEILING(wire.bits + 1, 8))]
    /\ UNCHANGED <<vec, send_, err, nops, disk, saved, loaded, made, comp, alias, add_size>>

\* add_elements reads it from the receive buffer
Unpack ==
    /\ wire.phase = "packed"
    /\ wire' = [wire EXCEPT
                  !.phase = "recovered",
                  !.rec_flag = recv_flag(wire.buf, wire.bits),
                  !.rec_idx = recv_idx(wire.buf, wire.bits)]
    /\ UNCHANGED <<vec, send_, err, nops, disk, saved, loaded, made, comp, alias, add_size>>

InitFlag ==
    /\ vec = [p \in Procs |-> DistVecInit(InitSize)]
    /\ send_ = AdderInit
    /\ err = "none"
    /\ nops = 0
    /\ disk = NoDisk
    /\ saved = [p \in Procs |-> {}]
    /\ loaded = FALSE
    /\ made = NoSlots
    /\ comp = Idle
    /\ alias = Idle
    /\ add_size = AdderSize
    /\ \E bits \in FlagWidths :
          \E idx \in 0 .. (Pow2(bits) - 1), ini_flag \in {0, 1},
             old \in StaleSlots(CEILING(bits + 1, 8)) :
                wire = WireInput(bits, idx, ini_flag, old)

NextFlag == Pack \/ Unpack

SpecFlag == InitFlag /\ [][NextFlag]_vars

(***************************************************************************)
(* Compression: find_preserve and sys_comp (FRIES/compress_utils.cpp).     *)
(* Weights are integers, in units of TinyNorm-th parts of the 1e-9 cut,    *)
(* and the arithmetic is exact: a quotient a / b is held as the pair       *)
(* [num |-> a, den |-> b], and comparisons are cross-multiplied.  Arrays   *)
(* are sequences, so the element det_idx of the code is element            *)
(* det_idx + 1 here.  An unsigned int that wrapped below zero is held as   *)
(* the negative integer congruent to it modulo 2^32.                       *)
(***************************************************************************)
VecLen == 3          \* elements of the compressed vector, over all processes
MaxW == 3            \* largest weight
MaxNeg == 1          \* largest magnitude of a negative weight
MaxSamp == 3         \* largest compression budget n_samp
GridMul == 2         \* draws per cell of the grid of pivots
TinyNorm == 3        \* the cut glob_one_norm < 1e-9 of find_preserve

Weights == (0 - MaxNeg) .. MaxW

Rat(a, b) == [num |-> a, den |-> b]

\* a sum that reads the value of process 0 only
sum_mpi_first(rec_vals, n_procs) == rec_vals[0]

RECURSIVE sum_mpi(_, _)
\* the loop over rec_vals[0 .. n_procs-1] after the Allgather
sum_mpi(rec_vals, n_procs) ==
    IF n_procs = 0 THEN 0 ELSE sum_mpi(rec_vals, n_procs - 1) + rec_vals[n_procs - 1]

RECURSIVE one_norm(_, _)
\* loc_one_norm += fabs(values[det_idx]) over the first count elements
one_norm(values, count) ==
    IF count = 0 THEN 0 ELSE one_norm(values, count - 1) + Abs(values[count])

\* srt_idx[0] of the max-heap by magnitude over the elements still in the
\* heap; among equal magnitudes the one of smallest position
heap_top(values, heap) ==
    CHOOSE i \in heap :
        \A j \in heap : \/ Abs(values[i]) > Abs(values[j])
                        \/ Abs(values[i]) = Abs(values[j]) /\ i <= j

\* a test that keeps an element only when it is above the threshold
keep_test_strict(el_magn, glob_one_norm, n_samp, loc_sampled) ==
    n_samp - loc_sampled > 0 /\ el_magn * (n_samp - loc_sampled) > glob_one_norm

\* a test against the norm divided by the whole budget, without loc_sampled
keep_test_fixed(el_magn, glob_one_norm, n_samp, loc_sampled) ==
    n_samp > 0 /\ el_magn * n_samp >= glob_one_norm

\* el_magn >= glob_one_norm / (*n_samp - loc_sampled): the divisor is an
\* unsigned int; division by 0 gives an infinity or NaN, and a wrapped
\* divisor is larger than every norm
keep_test(el_magn, glob_one_norm, n_samp, loc_sampled) ==
    LET den == n_samp - loc_sampled
    IN IF den > 0 THEN el_magn * den >= glob_one_norm
       ELSE IF den = 0 THEN glob_one_norm < 0
       ELSE el_magn > 0 \/ glob_one_norm <= 0

RECURSIVE keep_loop(_, _, _)
\* the inner while loop of find_preserve on one process
keep_loop(values, n_samp, s) ==
    IF s.heap = {} THEN s
    ELSE LET max_idx == heap_top(values, s.heap)
             el_magn == Abs(values[max_idx])
         IN IF keep_test(el_magn, s.glob_one_norm, n_samp, s.loc_sampled)
            THEN keep_loop(values, n_samp,
                    [heap |-> s.heap \ {max_idx},
                     keep_idx |-> [s.keep_idx EXCEPT ![max_idx] = 1],
                     loc_sampled |-> s.loc_sampled + 1,
                     loc_one_norm |-> s.loc_one_norm - el_magn,
                     glob_one_norm |-> s.glob_one_norm - el_magn])
            ELSE s

RECURSIVE preserve_rounds(_, _, _)
\* the outer while loop of find_preserve, run by all processes in step
preserve_rounds(values, sh, n_samp) ==
    LET g == sum_mpi([p \in Procs |-> sh[p].loc_one_norm], NProcs)
        r == [p \in Procs |->
                keep_loop(values[p], n_samp,
                          [sh[p] EXCEPT !.loc_sampled = 0, !.glob_one_norm = g])]
        glob_sampled == sum_mpi([p \in Procs |-> r[p].loc_sampled], NProcs)
        ns == n_samp - glob_sampled
    IN IF glob_sampled > 0 THEN preserve_rounds(values, r, ns)
       ELSE [sh |-> r, n_samp |-> ns]

\* the residual norm returned by find_preserve
resid_norm(values, keep_idx) ==
    one_norm([i \in 1 .. Len(values) |-> IF keep_idx[i] = 0 THEN values[i] ELSE 0],
             Len(values))

\* a find_preserve without the test of the norm against 1e-9
find_preserve_nocut(values, n_samp) ==
    LET sh0 == [p \in Procs |->
                  [heap |-> 1 .. Len(values[p]),
                   keep_idx |-> [i \in 1 .. Len(values[p]) |-> 0],
                   loc_sampled |-> 0,
                   loc_one_norm |-> one_norm(values[p], Len(values[p])),
                   glob_one_norm |-> 0]]
        res == preserve_rounds(values, sh0, n_samp)
    IN [keep_idx |-> [p \in Procs |-> res.sh[p].keep_idx],
        n_samp |-> [p \in Procs |-> res.n_samp],
        ret |-> [p \in Procs |-> resid_norm(values[p], res.sh[p].keep_idx)],
        global_norm |-> sum_mpi([p \in Procs |-> sh0[p].loc_one_norm], NProcs)]

\* find_preserve on every process: keep_idx, n_samp and the returned norm
\* of each process, and global_norm
find_preserve(values, n_samp) ==
    LET sh0 == [p \in Procs |->
                  [heap |-> 1 .. Len(values[p]),
                   keep_idx |-> [i \in 1 .. Len(values[p]) |-> 0],
                   loc_sampled |-> 0,
                   loc_one_norm |-> one_norm(values[p], Len(values[p])),
                   glob_one_norm |-> 0]]
        res == preserve_rounds(values, sh0, n_samp)
        tiny == [p \in Procs |-> res.sh[p].glob_one_norm < TinyNorm]
    IN [keep_idx |-> [p \in Procs |-> res.sh[p].keep_idx],
        n_samp |-> [p \in Procs |-> IF tiny[p] THEN 0 ELSE res.n_samp],
        ret |-> [p \in Procs |->
                    IF tiny[p] THEN 0 ELSE resid_norm(values[p], res.sh[p].keep_idx)],
        global_norm |-> sum_mpi([p \in Procs |-> sh0[p].loc_one_norm], NProcs)]

\* (int)(a / b) for a, b >= 0; with b = 0 the quotient is NaN, and the
\* caller multiplies the result by a zero norm
trunc_div(a, b) == IF b = 0 THEN 0 ELSE a \div b

\* rn_sys is held multiplied by n_samp * rand_num.den, or is INFINITY
Finite(x) == [fin |-> TRUE, num |-> x]
INFINITY == [fin |-> FALSE, num |-> 0]

\* a seed that starts every process at the pivot of process 0
seed_sys_first(norms, rand_num, n_samp, my_rank) ==
    [lbound |-> sum_mpi(norms, my_rank),
     rn |-> Finite(rand_num.num * sum_mpi(norms, NProcs))]

\* seed_sys on process my_rank: lbound, and the first pivot not below it
seed_sys(norms, rand_num, n_samp, my_rank) ==
    LET lbound == sum_mpi(norms, my_rank)
        global_norm == sum_mpi(norms, NProcs)
        rn0 == rand_num.num * global_norm
        rn1 == rn0 + global_norm * rand_num.den * trunc_div(lbound * n_samp, global_norm)
        rn2 == IF rn1 < lbound * n_samp * rand_num.den
               THEN rn1 + global_norm * rand_num.den ELSE rn1
    IN [lbound |-> lbound, rn |-> Finite(rn2)]

\* a comparison that takes the pivot at the upper end of an interval too
rn_below_closed(rn_sys, lbound, n_samp, den) ==
    rn_sys.fin /\ rn_sys.num <= lbound * n_samp * den

\* rn_sys < lbound
rn_below(rn_sys, lbound, n_samp, den) ==
    rn_sys.fin /\ rn_sys.num < lbound * n_samp * den

Sign(x) == IF x > 0 THEN 1 ELSE IF x < 0 THEN -1 ELSE 0

RECURSIVE sys_loop(_, _, _, _, _)
\* the loop of sys_comp over det_idx; picked counts the sampled elements
\* and kept_norm sums the kept ones, the two parts of loc_norms[proc_rank]
sys_loop(s, det_idx, tmp_glob_norm, n_samp, den) ==
    IF det_idx > Len(s.vec_vals) THEN s
    ELSE LET tmp_val == s.vec_vals[det_idx].num
             lbound == s.lbound + Abs(tmp_val)
             s1 == IF s.keep_exact[det_idx] /= 0
                   THEN [s EXCEPT !.kept_norm = @ + Abs(tmp_val),
                                  !.keep_exact[det_idx] = 0]
                   ELSE IF tmp_val /= 0
                   THEN IF rn_below(s.rn_sys, lbound, n_samp, den)
                        THEN [s EXCEPT
                                !.lbound = lbound,
                                !.vec_vals[det_idx] = Rat(tmp_glob_norm * Sign(tmp_val), n_samp),
                                !.picked = @ + 1,
                                !.rn_sys = Finite(s.rn_sys.num + tmp_glob_norm * den)]
                        ELSE [s EXCEPT
                                !.lbound = lbound,
                                !.vec_vals[det_idx] = Rat(0, 1),
                                !.keep_exact[det_idx] = 1]
                   ELSE s
         IN sys_loop(s1, det_idx + 1, tmp_glob_norm, n_samp, den)

\* sys_comp on process proc_rank
sys_comp(vec_vals, loc_norms, n_samp, keep_exact, rand_num, proc_rank) ==
    LET tmp_glob_norm == sum_mpi(loc_norms, NProcs)
        seed == IF n_samp /= 0 THEN seed_sys(loc_norms, rand_num, n_samp, proc_rank)
                ELSE [lbound |-> 0, rn |-> INFINITY]
    IN sys_loop([vec_vals |-> [i \in 1 .. Len(vec_vals) |-> Rat(vec_vals[i], 1)],
                 keep_exact |-> keep_exact,
                 lbound |-> seed.lbound,
                 rn_sys |-> seed.rn,
                 kept_norm |-> 0,
                 picked |-> 0],
                1, tmp_glob_norm, n_samp, rand_num.den)

(***************************************************************************)
(* One compression of a vector spread over the processes, followed by the  *)
(* draws of the grid in turn, each on a copy of the preserved vector       *)
(***************************************************************************)
\* the contiguous splits of VecLen elements over the processes
Splits == {f \in [1 .. VecLen -> Procs] :
              \A i \in 1 .. VecLen, j \in 1 .. VecLen : i < j => f[i] <= f[j]}

Shard(w, f, p) ==
    LET first == Cardinality({i \in 1 .. VecLen : f[i] < p})
        n == Cardinality({i \in 1 .. VecLen : f[i] = p})
    IN [i \in 1 .. n |-> w[first + i]]

CompInput(w, f, n_samp) ==
    [phase |-> "input",
     vals |-> [p \in Procs |-> Shard(w, f, p)],
     target |-> n_samp,
     keep_idx |-> [p \in Procs |-> [i \in 1 .. Len(Shard(w, f, p)) |-> 0]],
     n_samp |-> [p \in Procs |-> n_samp],
     loc_norms |-> [p \in Procs |-> 0],
     global_norm |-> 0,
     rand_num |-> Rat(0, 1),
     trial |-> 0,
     out |-> [p \in Procs |-> << >>],
     acc |-> [p \in Procs |-> [i \in 1 .. Len(Shard(w, f, p)) |-> 0]]]

\* find_preserve on every process and the Allgather of the returned norms
FindPreserve ==
    /\ comp.phase = "input"
    /\ LET r == find_preserve(comp.vals, comp.target)
       IN comp' = [comp EXCEPT !.phase = "preserved",
                               !.keep_idx = r.keep_idx,
                               !.n_samp = r.n_samp,
                               !.loc_norms = r.ret,
                               !.global_norm = r.global_norm]
    /\ UNCHANGED <<vec, send_, err, nops, disk, saved, loaded, made, alias, add_size, wire>>

\* the number of draws: GridMul per cell between two pivots of the grid
GridDen(c) == IF c.n_samp[0] = 0 THEN 1 ELSE GridMul * sum_mpi(c.loc_norms, NProcs)

\* the weight of a value in units of 1 / n_samp
Scaled(x, n_samp) == IF x.den = 1 THEN x.num * (IF n_samp = 0 THEN 1 ELSE n_samp) ELSE x.num

\* sys_comp on every process with the draw trial / GridDen, on a copy of
\* the vector that find_preserve left
SysComp ==
    /\ comp.phase \in {"preserved", "sampled"}
    /\ comp.trial < GridDen(comp)
    /\ LET rn == Rat(comp.trial, GridDen(comp))
           r == [p \in Procs |->
                   sys_comp(comp.vals[p], comp.loc_norms, comp.n_samp[p],
                            comp.keep_idx[p], rn, p)]
       IN comp' = [comp EXCEPT
                     !.phase = "sampled",
                     !.rand_num = rn,
                     !.trial = @ + 1,
                     !.out = r,
                     !.acc = [p \in Procs |-> [i \in 1 .. Len(comp.vals[p]) |->
                                 comp.acc[p][i] + Scaled(r[p].vec_vals[i], comp.n_samp[p])]]]
    /\ UNCHANGED <<vec, send_, err, nops, disk, saved, loaded, made, alias, add_size, wire>>

InitComp ==
    /\ vec = [p \in Procs |-> DistVecInit(InitSize)]
    /\ send_ = AdderInit
    /\ err = "none"
    /\ nops = 0
    /\ disk = NoDisk
    /\ saved = [p \in Procs |-> {}]
    /\ loaded = FALSE
    /\ made = NoSlots
    /\ alias = Idle
    /\ add_size = AdderSize
    /\ wire = Idle
    /\ \E w \in [1 .. VecLen -> Weights], f \in Splits, n_samp \in 1 .. MaxSamp :
          comp = CompInput(w, f, n_samp)

NextComp == FindPreserve \/ SysComp

SpecComp == InitComp /\ [][NextComp]_vars

(***************************************************************************)
(* find_preserve as one process per shard.  pc is the line of              *)
(* compress_utils.cpp a process is at; at the lines 41, 43 and 68 it waits *)
(* in the MPI_Allgather of sum_mpi, which returns when every process of    *)
(* the communicator has entered the same call.                             *)
(***************************************************************************)
\* a count of the elements marked on the process itself
glob_sampled_local(sh, p) == sh[p].loc_sampled

\* line 68 on process p: glob_sampled = sum_mpi(loc_sampled, proc_rank, n_procs)
glob_sampled_on(sh, p) == sum_mpi([q \in Procs |-> sh[q].loc_sampled], NProcs)

\* while (glob_sampled > 0)
stay_in_loop(glob_sampled) == glob_sampled > 0

\* lines 22-40 on one process
preserve_start(values, n_samp) ==
    [pc |-> 41,
     heap |-> 1 .. Len(values),
     keep_idx |-> [i \in 1 .. Len(values) |-> 0],
     loc_sampled |-> 0,
     loc_one_norm |-> one_norm(values, Len(values)),
     glob_one_norm |-> 0,
     glob_sampled |-> 1,
     n_samp |-> n_samp,
     global_norm |-> 0,
     rounds |-> 0,
     ret |-> 0]

\* every process waits in the Allgather of the line
AllAt(line) == \A p \in Procs : comp.sh[p].pc = line

\* line 41: *global_norm = sum_mpi(loc_one_norm, ...), then the test of the
\* while loop with glob_sampled = 1
GlobalNorm ==
    /\ comp.phase = "rounds"
    /\ AllAt(41)
    /\ comp' = [comp EXCEPT !.sh = [p \in Procs |->
                   [comp.sh[p] EXCEPT
                      !.global_norm = sum_mpi([q \in Procs |-> comp.sh[q].loc_one_norm],
                                              NProcs),
                      !.pc = IF stay_in_loop(comp.sh[p].glob_sampled) THEN 43 ELSE 72]]]
    /\ UNCHANGED <<vec, send_, err, nops, disk, saved, loaded, made, alias, add_size, wire>>

\* line 43: glob_one_norm = sum_mpi(loc_one_norm, ...); loc_sampled = 0
SumNorm ==
    /\ comp.phase = "rounds"
    /\ AllAt(43)
    /\ comp' = [comp EXCEPT !.sh = [p \in Procs |->
                   [comp.sh[p] EXCEPT
                      !.glob_one_norm = sum_mpi([q \in Procs |-> comp.sh[q].loc_one_norm],
                                                NProcs),
                      !.loc_sampled = 0,
                      !.rounds = @ + 1,
                      !.pc = 45]]]
    /\ UNCHANGED <<vec, send_, err, nops, disk, saved, loaded, made, alias, add_size, wire>>

\* lines 45-67 on process p: the inner while loop
KeepLoop(p) ==
    /\ comp.phase = "rounds"
    /\ comp.sh[p].pc = 45
    /\ \E r \in {keep_loop(comp.vals[p], comp.sh[p].n_samp,
                            [heap |-> comp.sh[p].heap,
                             keep_idx |-> comp.sh[p].keep_idx,
                             loc_sampled |-> comp.sh[p].loc_sampled,
                             loc_one_norm |-> comp.sh[p].loc_one_norm,
                             glob_one_norm |-> comp.sh[p].glob_one_norm])} :
          comp' = [comp EXCEPT !.sh[p] =
                      [comp.sh[p] EXCEPT
                         !.heap = r.heap,
                         !.keep_idx = r.keep_idx,
                         !.loc_sampled = r.loc_sampled,
                         !.loc_one_norm = r.loc_one_norm,
                         !.glob_one_norm = r.glob_one_norm,
                         !.pc = 68]]
    /\ UNCHANGED <<vec, send_, err, nops, disk, saved, loaded, made, alias, add_size, wire>>

\* lines 68-70 and the test of the while loop: glob_sampled =
\* sum_mpi(loc_sampled, ...); (*n_samp) -= glob_sampled
SumSampled ==
    /\ comp.phase = "rounds"
    /\ AllAt(68)
    /\ comp' = [comp EXCEPT !.sh = [p \in Procs |->
                   [comp.sh[p] EXCEPT
                      !.glob_sampled = glob_sampled_on(comp.sh, p),
                      !.n_samp = @ - glob_sampled_on(comp.sh, p),
                      !.pc = IF stay_in_loop(glob_sampled_on(comp.sh, p))
                             THEN 43 ELSE 72]]]
    /\ UNCHANGED <<vec, send_, err, nops, disk, saved, loaded, made, alias, add_size, wire>>

\* lines 72-83 on process p
PreserveReturn(p) ==
    /\ comp.phase = "rounds"
    /\ comp.sh[p].pc = 72
    /\ comp' = [comp EXCEPT !.sh[p] =
                   [comp.sh[p] EXCEPT
                      !.n_samp = IF comp.sh[p].glob_one_norm < TinyNorm THEN 0 ELSE @,
                      !.ret = IF comp.sh[p].glob_one_norm < TinyNorm THEN 0
                              ELSE resid_norm(comp.vals[p], comp.sh[p].keep_idx),
                      !.pc = 84]]
    /\ UNCHANGED <<vec, send_, err, nops, disk, saved, loaded, made, alias, add_size, wire>>

InitRounds ==
    /\ vec = [p \in Procs |-> DistVecInit(InitSize)]
    /\ send_ = AdderInit
    /\ err = "none"
    /\ nops = 0
    /\ disk = NoDisk
    /\ saved = [p \in Procs |-> {}]
    /\ loaded = FALSE
    /\ made = NoSlots
    /\ alias = Idle
    /\ add_size = AdderSize
    /\ wire = Idle
    /\ \E w \in [1 .. VecLen -> Weights], f \in Splits, n_samp \in 1 .. MaxSamp :
          comp = [phase |-> "rounds",
                  vals |-> [p \in Procs |-> Shard(w, f, p)],
                  target |-> n_samp,
                  sh |-> [p \in Procs |-> preserve_start(Shard(w, f, p), n_samp)]]

NextRounds ==
    \/ GlobalNorm
    \/ SumNorm
    \/ \E p \in Procs : KeepLoop(p)
    \/ SumSampled
    \/ \E p \in Procs : PreserveReturn(p)

\* every process goes on when it can
SpecRounds == InitRounds /\ [][NextRounds]_vars /\ WF_vars(NextRounds)

(***************************************************************************)
(* Compression with sub-weights: comp_sub = find_keep_sub, then sys_sub    *)
(* (FRIES/compress_utils.cpp).  A weight is held as an integer in units of *)
(* 1 / SubScale, so that a weight times a sub-weight and a weight divided  *)
(* by n_div are integers; a sub-weight is its numerator over SubDen.       *)
(***************************************************************************)
SubLen == 2          \* elements of the weight vector, over all processes
MaxSubW == 2         \* largest weight
MaxDiv == 1          \* largest n_div
MaxSub == 2          \* largest number of columns of sub_weights and keep_idx
SubDen == 2          \* denominator of the sub-weights
SubGrid == 2         \* number of draws rand_num = k / SubGrid
MaxSubSamp == 2      \* largest budget n_samp of comp_sub

RECURSIVE Fact(_)
Fact(n) == IF n <= 1 THEN 1 ELSE n * Fact(n - 1)

SubScale == SubDen * Fact(MaxDiv)

RECURSIVE sum_wt(_, _)
\* loc_one_norm += values[det_idx] over the first count elements
sum_wt(values, count) ==
    IF count = 0 THEN 0 ELSE sum_wt(values, count - 1) + values[count]

\* a find_keep_sub that keeps nothing
fk_det_none(s, det_idx, in, n_samp) == s

RECURSIVE fk_sub(_, _, _, _, _, _)
\* the loop over sub_idx of find_keep_sub for the element det_idx; tg / td
\* is keep_thresh
fk_sub(s, det_idx, sub_idx, n_sub, in, n_samp) ==
    IF sub_idx > n_sub THEN s
    ELSE IF s.keep_idx[det_idx][sub_idx] = 1
    THEN fk_sub(s, det_idx, sub_idx + 1, n_sub, in, n_samp)
    ELSE LET sub_magn == (in.values[det_idx] * in.sub_weights[det_idx][sub_idx]) \div SubDen
         IN IF keep_test(sub_magn, s.tg, s.td, 0) /\ Abs(sub_magn) > 0
            THEN LET g == s.glob_one_norm - sub_magn
                     s1 == [s EXCEPT !.keep_idx[det_idx][sub_idx] = 1,
                                     !.loc_sampled = @ + 1,
                                     !.loc_one_norm = @ - sub_magn,
                                     !.glob_one_norm = g]
                 IN IF g < 0 THEN s1
                    ELSE fk_sub([s1 EXCEPT !.tg = g, !.td = n_samp - s1.loc_sampled],
                                det_idx, sub_idx + 1, n_sub, in, n_samp)
            ELSE fk_sub([s EXCEPT !.sub_remain = @ + sub_magn],
                        det_idx, sub_idx + 1, n_sub, in, n_samp)

\* wt_remain[det_idx] = sub_remain after the loop over sub_idx
fk_remain(s, det_idx) == [s EXCEPT !.wt_remain[det_idx] = s.sub_remain]

RECURSIVE fk_det(_, _, _, _)
\* the loop over det_idx of find_keep_sub on one process
fk_det(s, det_idx, in, n_samp) ==
    IF det_idx > Len(in.values) THEN s
    ELSE LET el_magn == in.values[det_idx]
             tg == s.glob_one_norm
             td == n_samp - s.loc_sampled
         IN IF ~keep_test(el_magn, tg, td, 0) THEN fk_det(s, det_idx + 1, in, n_samp)
            ELSE IF in.n_div[det_idx] > 0
            THEN IF keep_test(el_magn \div in.n_div[det_idx], tg, td, 0)
                    /\ s.keep_idx[det_idx][1] = 0
                 THEN LET g == s.glob_one_norm - el_magn
                          s1 == [s EXCEPT !.keep_idx[det_idx][1] = 1,
                                          !.wt_remain[det_idx] = 0,
                                          !.loc_sampled = @ + in.n_div[det_idx],
                                          !.loc_one_norm = @ - el_magn,
                                          !.glob_one_norm = g]
                      IN IF g < 0 THEN s1 ELSE fk_det(s1, det_idx + 1, in, n_samp)
                 ELSE fk_det(s, det_idx + 1, in, n_samp)
            ELSE fk_det(fk_remain(fk_sub([s EXCEPT !.tg = tg, !.td = td,
                                                    !.sub_remain = 0],
                                         det_idx, 1,
                                         IF in.sub_sizes.null THEN in.sub_cols
                                         ELSE in.sub_sizes.at[det_idx],
                                         in, n_samp),
                                  det_idx),
                        det_idx + 1, in, n_samp)

RECURSIVE fk_rounds(_, _, _, _)
\* the end of one pass of the while loop of find_keep_sub: g is
\* glob_one_norm at its start, r the state of each process after its loop
\* over det_idx, glob_sampled the sum of loc_sampled
fk_pass_end(in, sh, g, r, glob_sampled, n_samp, last_pass) ==
    IF g < 0
    THEN [sh |-> [p \in Procs |-> [sh[p] EXCEPT !.glob_one_norm = g]],
          n_samp |-> n_samp]
    ELSE IF glob_sampled = 0 /\ ~last_pass
    THEN fk_rounds(in,
            [p \in Procs |->
                [r[p] EXCEPT !.loc_one_norm =
                    sum_wt(r[p].wt_remain, Len(r[p].wt_remain))]],
            n_samp - glob_sampled, TRUE)
    ELSE IF glob_sampled > 0
    THEN fk_rounds(in, r, n_samp - glob_sampled, FALSE)
    ELSE [sh |-> r, n_samp |-> n_samp - glob_sampled]

\* the sum of loc_sampled over the processes (MPI_Allreduce)
fk_pass_sum(in, sh, g, r, n_samp, last_pass) ==
    fk_pass_end(in, sh, g, r,
                sum_mpi([p \in Procs |-> r[p].loc_sampled], NProcs),
                n_samp, last_pass)

\* one pass of the while loop: the loop over det_idx on every process
fk_pass(in, sh, g, n_samp, last_pass) ==
    fk_pass_sum(in, sh, g,
                [p \in Procs |->
                    fk_det([sh[p] EXCEPT !.loc_sampled = 0, !.glob_one_norm = g],
                           1, in[p], n_samp)],
                n_samp, last_pass)

\* the while loop of find_keep_sub, run by all processes in step
fk_rounds(in, sh, n_samp, last_pass) ==
    fk_pass(in, sh, sum_mpi([p \in Procs |-> sh[p].loc_one_norm], NProcs),
            n_samp, last_pass)

\* glob_one_norm / *n_samp < 1e-8 for a norm that is a multiple of
\* 1 / SubScale and far above 1e-8 when it is not zero: a zero divisor gives
\* an infinity or NaN, a wrapped divisor a quotient near zero
tiny_sub(glob_one_norm, n_samp) ==
    IF n_samp > 0 THEN glob_one_norm <= 0
    ELSE IF n_samp = 0 THEN glob_one_norm < 0
    ELSE TRUE

\* find_keep_sub on every process: keep_idx, wt_remain, *n_samp and the
\* returned norm of each process
fk_return(res) ==
    [keep_idx |-> [p \in Procs |-> res.sh[p].keep_idx],
     wt_remain |-> [p \in Procs |-> res.sh[p].wt_remain],
     n_samp |-> [p \in Procs |->
                    IF tiny_sub(res.sh[p].glob_one_norm, res.n_samp) THEN 0
                    ELSE res.n_samp],
     ret |-> [p \in Procs |->
                 IF tiny_sub(res.sh[p].glob_one_norm, res.n_samp) THEN 0
                 ELSE sum_wt(res.sh[p].wt_remain, Len(res.sh[p].wt_remain))]]

find_keep_sub(in, n_samp) ==
    fk_return(fk_rounds(in,
                        [p \in Procs |->
                            [keep_idx |-> in[p].keep_idx,
                             wt_remain |-> in[p].values,
                             loc_sampled |-> 0,
                             loc_one_norm |-> sum_wt(in[p].values, Len(in[p].values)),
                             glob_one_norm |-> 0,
                             tg |-> 0, td |-> 0, sub_remain |-> 0]],
                        n_samp, FALSE))

\* the entries new_vals[num_new], new_idx[num_new][0 .. 1] for the n_div
\* sub-elements sub_idx .. n_div - 1 of a kept element
RECURSIVE div_entries(_, _, _, _)
div_entries(tmp_val, n_div, wt_idx, sub_idx) ==
    IF sub_idx >= n_div THEN << >>
    ELSE <<[val |-> Rat(tmp_val, n_div), wt |-> wt_idx, sub |-> sub_idx]>>
            \o div_entries(tmp_val, n_div, wt_idx, sub_idx + 1)

RECURSIVE ss_while(_, _, _, _, _, _)
\* while (rn_sys < lbound) of sys_sub for an element divided uniformly; with
\* a pivot spacing of zero the loop does not end
ss_while(s, wt_idx, in, tmp_glob_norm, n_samp, den) ==
    IF ~rn_below(s.rn_sys, s.lbound, n_samp, den) THEN s
    ELSE IF tmp_glob_norm <= 0 THEN [s EXCEPT !.hang = TRUE]
    ELSE LET tmp_val == in.values[wt_idx]
             sub_idx == ((s.lbound * n_samp * den - s.rn_sys.num) * in.n_div[wt_idx])
                            \div (tmp_val * n_samp * den)
         IN ss_while([s EXCEPT
                        !.new = Append(@, [val |-> Rat(tmp_glob_norm, n_samp),
                                           wt |-> wt_idx - 1, sub |-> sub_idx]),
                        !.rn_sys = Finite(s.rn_sys.num + tmp_glob_norm * den),
                        !.picked = @ + 1],
                     wt_idx, in, tmp_glob_norm, n_samp, den)

RECURSIVE ss_sub(_, _, _, _, _, _, _, _)
\* the loop over sub_idx of sys_sub for an element with sub-weights;
\* sub_lbound is held in s.sub_lbound
ss_sub(s, wt_idx, sub_idx, n_sub, in, tmp_glob_norm, n_samp, den) ==
    IF sub_idx > n_sub THEN s
    ELSE LET sub_val == (in.values[wt_idx] * in.sub_weights[wt_idx][sub_idx]) \div SubDen
         IN IF s.keep_idx[wt_idx][sub_idx] = 1
            THEN ss_sub([s EXCEPT
                           !.keep_idx[wt_idx][sub_idx] = 0,
                           !.new = Append(@, [val |-> Rat(sub_val, 1),
                                              wt |-> wt_idx - 1, sub |-> sub_idx - 1])],
                        wt_idx, sub_idx + 1, n_sub, in, tmp_glob_norm, n_samp, den)
            ELSE LET lb == s.sub_lbound + sub_val
                 IN IF rn_below(s.rn_sys, lb, n_samp, den)
                    THEN ss_sub([s EXCEPT
                                   !.sub_lbound = lb,
                                   !.new = Append(@, [val |-> Rat(tmp_glob_norm, n_samp),
                                                      wt |-> wt_idx - 1,
                                                      sub |-> sub_idx - 1]),
                                   !.picked = @ + 1,
                                   !.rn_sys = Finite(s.rn_sys.num + tmp_glob_norm * den)],
                                wt_idx, sub_idx + 1, n_sub, in, tmp_glob_norm, n_samp, den)
                    ELSE ss_sub([s EXCEPT !.sub_lbound = lb],
                                wt_idx, sub_idx + 1, n_sub, in, tmp_glob_norm, n_samp, den)

RECURSIVE ss_loop(_, _, _, _, _, _)
\* the loop over wt_idx of sys_sub on one process; kept_norm and picked are
\* the two parts of loc_norms[proc_rank]
ss_loop(s, wt_idx, in, tmp_glob_norm, n_samp, den) ==
    IF wt_idx > Len(in.values) \/ s.hang THEN s
    ELSE LET tmp_val == in.values[wt_idx]
             lbound == s.lbound + s.wt_remain[wt_idx]
             s0 == [s EXCEPT !.lbound = lbound]
             s1 == IF in.n_div[wt_idx] > 0
                   THEN IF s.keep_idx[wt_idx][1] = 1
                        THEN [s0 EXCEPT
                                !.keep_idx[wt_idx][1] = 0,
                                !.new = @ \o div_entries(tmp_val, in.n_div[wt_idx],
                                                         wt_idx - 1, 0),
                                !.kept_norm = @ + tmp_val]
                        ELSE IF tmp_val /= 0
                        THEN ss_while(s0, wt_idx, in, tmp_glob_norm, n_samp, den)
                        ELSE s0
                   ELSE IF s.wt_remain[wt_idx] < tmp_val
                           \/ rn_below(s.rn_sys, lbound, n_samp, den)
                   THEN ss_sub([s0 EXCEPT
                                  !.kept_norm = @ + (tmp_val - s.wt_remain[wt_idx]),
                                  !.sub_lbound = lbound - s.wt_remain[wt_idx]],
                               wt_idx, 1,
                               IF in.sub_sizes.null THEN in.keep_cols
                               ELSE in.sub_sizes.at[wt_idx],
                               in, tmp_glob_norm, n_samp, den)
                   ELSE s0
         IN ss_loop(s1, wt_idx + 1, in, tmp_glob_norm, n_samp, den)

\* sys_sub on process proc_rank: keep_idx, the entries written to new_vals
\* and new_idx from position 0 on, and the returned num_new
ss_return(s) ==
    [keep_idx |-> s.keep_idx, new |-> s.new, ret |-> Len(s.new), hang |-> s.hang]

\* the loop of sys_sub from the first pivot seed
ss_start(in, keep_idx, n_samp, wt_remain, loc_norms, rand_num, seed) ==
    ss_return(ss_loop([keep_idx |-> keep_idx,
                       wt_remain |-> wt_remain,
                       lbound |-> seed.lbound,
                       sub_lbound |-> 0,
                       rn_sys |-> seed.rn,
                       kept_norm |-> 0,
                       picked |-> 0,
                       new |-> << >>,
                       hang |-> FALSE],
                      1, in, sum_mpi(loc_norms, NProcs), n_samp, rand_num.den))

sys_sub(in, keep_idx, n_samp, wt_remain, loc_norms, rand_num, proc_rank) ==
    ss_start(in, keep_idx, n_samp, wt_remain, loc_norms, rand_num,
             IF n_samp > 0 THEN seed_sys(loc_norms, rand_num, n_samp, proc_rank)
             ELSE [lbound |-> 0, rn |-> INFINITY])

\* what comp_sub leaves after sys_sub returned r on each process
cs_return(k, r) ==
    [keep_idx |-> [p \in Procs |-> r[p].keep_idx],
     wt_remain |-> k.wt_remain,
     new |-> [p \in Procs |-> r[p].new],
     ret |-> [p \in Procs |-> r[p].ret],
     stderr |-> "",
     thrown |-> FALSE,
     hang |-> \E p \in Procs : r[p].hang]

\* the second phase of comp_sub: MPI_Allgather of the norms k.ret that
\* find_keep_sub returned, then sys_sub
cs_sample(in, k, rand_num) ==
    cs_return(k, [p \in Procs |->
                     sys_sub(in[p], k.keep_idx[p], k.n_samp[p], k.wt_remain[p],
                             k.ret, rand_num, p)])

\* comp_sub on every process.  With different numbers of columns it prints
\* its message to stderr and returns 0; nothing is thrown.
comp_sub(in, n_samp, rand_num) ==
    IF \E p \in Procs : in[p].keep_cols /= in[p].sub_cols
    THEN [keep_idx |-> [p \in Procs |-> in[p].keep_idx],
          wt_remain |-> [p \in Procs |-> in[p].wt_remain],
          new |-> [p \in Procs |-> << >>],
          ret |-> [p \in Procs |-> 0],
          stderr |-> "Error in comp_sub: column dimension of sub_weights does not equal column dimension of keep_idx.",
          thrown |-> FALSE,
          hang |-> FALSE]
    ELSE cs_sample(in, find_keep_sub(in, n_samp), rand_num)

\* the contiguous splits of SubLen elements over the processes
SubSplits == {f \in [1 .. SubLen -> Procs] :
                 \A i \in 1 .. SubLen, j \in 1 .. SubLen : i < j => f[i] <= f[j]}

\* rows of sub-weights that sum to one
SubRows(n_sub) == {row \in [1 .. n_sub -> 0 .. SubDen] : sum_wt(row, n_sub) = SubDen}

\* the part of process p of an array over the SubLen elements
SubShard(w, f, p) ==
    LET first == Cardinality({i \in 1 .. SubLen : f[i] < p})
        n == Cardinality({i \in 1 .. SubLen : f[i] = p})
    IN [i \in 1 .. n |-> w[first + i]]

\* the arguments of comp_sub on process p: the weights in units of
\* 1 / SubScale, keep_idx all zero with keep_cols columns, wt_remain zero
\* (calloc), sub_sizes NULL (sizes = 0) or the column count sizes for
\* every element
SubInput(w, nd, sw, f, sub_cols, keep_cols, sizes, p) ==
    LET vals == SubShard(w, f, p)
    IN [values |-> [i \in 1 .. Len(vals) |-> vals[i] * SubScale],
        n_div |-> SubShard(nd, f, p),
        sub_weights |-> SubShard(sw, f, p),
        sub_cols |-> sub_cols,
        keep_cols |-> keep_cols,
        keep_idx |-> [i \in 1 .. Len(vals) |->
                         [j \in 1 .. (IF keep_cols > sub_cols THEN keep_cols ELSE sub_cols)
                             |-> 0]],
        wt_remain |-> [i \in 1 .. Len(vals) |-> 0],
        sub_sizes |-> [null |-> sizes = 0, at |-> [i \in 1 .. Len(vals) |-> sizes]]]

\* comp_sub called by all processes
CompSub ==
    /\ comp.phase = "sub_input"
    /\ \E r \in {comp_sub(comp.in, comp.n_samp, comp.rand_num)} :
          /\ comp' = [comp EXCEPT
                        !.phase = "sub_done",
                        !.keep_idx = r.keep_idx,
                        !.wt_remain = r.wt_remain,
                        !.new = r.new,
                        !.ret = r.ret,
                        !.stderr = r.stderr,
                        !.hang = r.hang]
          /\ err' = IF r.thrown THEN "comp_sub" ELSE err
    /\ UNCHANGED <<vec, send_, nops, disk, saved, loaded, made, alias, add_size, wire>>

\* the caller goes on with the comp_len entries that comp_sub returned
\* (frisys_hh.cpp:287): it reads new_idx[0 .. comp_len - 1]
UseSamples ==
    /\ comp.phase = "sub_done"
    /\ err = "none"
    /\ ~comp.hang
    /\ comp' = [comp EXCEPT !.phase = "sub_used"]
    /\ UNCHANGED <<vec, send_, err, nops, disk, saved, loaded, made, alias, add_size, wire>>

InitSub ==
    /\ vec = [p \in Procs |-> DistVecInit(InitSize)]
    /\ send_ = AdderInit
    /\ err = "none"
    /\ nops = 0
    /\ disk = NoDisk
    /\ saved = [p \in Procs |-> {}]
    /\ loaded = FALSE
    /\ made = NoSlots
    /\ alias = Idle
    /\ add_size = AdderSize
    /\ wire = Idle
    /\ \E sub_cols \in 1 .. MaxSub, keep_cols \in 1 .. MaxSub, f \in SubSplits,
          n_samp \in 1 .. MaxSubSamp, k \in 0 .. (SubGrid - 1), sizes \in 0 .. 1 :
          \E w \in [1 .. SubLen -> 0 .. MaxSubW], nd \in [1 .. SubLen -> 0 .. MaxDiv],
             sw \in [1 .. SubLen -> SubRows(sub_cols)] :
                comp = [phase |-> "sub_input",
                        in |-> [p \in Procs |->
                                   SubInput(w, nd, sw, f, sub_cols, keep_cols, sizes, p)],
                        n_samp |-> n_samp,
                        rand_num |-> Rat(k, SubGrid),
                        keep_idx |-> [p \in Procs |->
                            SubInput(w, nd, sw, f, sub_cols, keep_cols, sizes, p).keep_idx],
                        wt_remain |-> [p \in Procs |->
                            SubInput(w, nd, sw, f, sub_cols, keep_cols, sizes, p).wt_remain],
                        new |-> [p \in Procs |-> << >>],
                        ret |-> [p \in Procs |-> 0],
                        stderr |-> "",
                        hang |-> FALSE]

NextSub == CompSub \/ UseSamples

SpecSub == InitSub /\ [][NextSub]_vars

(***************************************************************************)
(* The alias method: setup_alias and sample_alias.  A probability is held  *)
(* as its numerator over ProbDen, so that 1 is ProbDen.                    *)
(***************************************************************************)
MaxStates == 3       \* largest number of states n_states
ProbDen == 6         \* denominator of the probabilities

States(n_states) == 0 .. (n_states - 1)

\* the probability vectors over n_states states
ProbVecs(n_states) ==
    {pr \in [States(n_states) -> 0 .. ProbDen] :
        sum_mpi(pr, n_states) = ProbDen}

RECURSIVE alias_fill(_, _, _)
\* the for loop of setup_alias from state i on
alias_fill(t, probs, i) ==
    IF i >= t.n_states THEN t
    ELSE LET ap == t.n_states * probs[i]
             t1 == [t EXCEPT !.aliases[i] = i, !.alias_probs[i] = ap]
         IN alias_fill(IF ap < ProbDen
                       THEN [t1 EXCEPT !.smaller = Append(@, i)]
                       ELSE [t1 EXCEPT !.bigger = Append(@, i)],
                       probs, i + 1)

\* a pass that hands over the whole of alias_probs[s]
alias_step_whole(t) ==
    LET n_s == Len(t.smaller)
        n_b == Len(t.bigger)
        s == t.smaller[n_s]
        b == t.bigger[n_b]
        ap == t.alias_probs[b] + t.alias_probs[s]
    IN [t EXCEPT !.aliases[s] = b,
                 !.alias_probs[b] = ap,
                 !.smaller = SubSeq(t.smaller, 1, n_s - 1)]

\* one pass of the while loop of setup_alias
alias_step(t) ==
    LET n_s == Len(t.smaller)
        n_b == Len(t.bigger)
        s == t.smaller[n_s]
        b == t.bigger[n_b]
        ap == t.alias_probs[b] + t.alias_probs[s] - ProbDen
        t1 == [t EXCEPT !.aliases[s] = b, !.alias_probs[b] = ap]
    IN IF ap < ProbDen
       THEN [t1 EXCEPT !.smaller[n_s] = b,
                       !.bigger = SubSeq(t.bigger, 1, n_b - 1)]
       ELSE [t1 EXCEPT !.smaller = SubSeq(t.smaller, 1, n_s - 1)]

RECURSIVE alias_loop(_)
alias_loop(t) ==
    IF Len(t.smaller) > 0 /\ Len(t.bigger) > 0 THEN alias_loop(alias_step(t)) ELSE t

setup_alias(probs, n_states) ==
    alias_loop(alias_fill([n_states |-> n_states,
                           aliases |-> [i \in States(n_states) |-> 0],
                           alias_probs |-> [i \in States(n_states) |-> 0],
                           smaller |-> << >>,
                           bigger |-> << >>], probs, 0))

\* one sample: the two draws are rn1 / (n_states * ProbDen) and rn2 / ProbDen
sample_alias(aliases, alias_probs, n_states, rn1, rn2) ==
    LET chosen_idx == (rn1 * n_states) \div (n_states * ProbDen)
    IN IF rn2 < alias_probs[chosen_idx] THEN chosen_idx ELSE aliases[chosen_idx]

AliasInput(n_states, probs) ==
    [phase |-> "input",
     n_states |-> n_states,
     probs |-> probs,
     aliases |-> [i \in States(n_states) |-> 0],
     alias_probs |-> [i \in States(n_states) |-> 0],
     n_drawn |-> 0,
     sample |-> 0,
     cumu_samp |-> [i \in States(n_states) |-> 0]]

SetupAlias ==
    /\ alias.phase = "input"
    /\ LET t == setup_alias(alias.probs, alias.n_states)
       IN alias' = [alias EXCEPT !.phase = "table",
                                 !.aliases = t.aliases,
                                 !.alias_probs = t.alias_probs]
    /\ UNCHANGED <<vec, send_, err, nops, disk, saved, loaded, made, comp, add_size, wire>>

\* the number of pairs of draws of the grid
NDraws(a) == a.n_states * ProbDen * ProbDen

\* sample_alias with the next pair of draws of the grid; the counts of the
\* samples are kept as in the test of the alias method
SampleAlias ==
    /\ alias.phase \in {"table", "sampled"}
    /\ alias.n_drawn < NDraws(alias)
    /\ LET rn1 == alias.n_drawn \div ProbDen
           rn2 == alias.n_drawn % ProbDen
           smp == sample_alias(alias.aliases, alias.alias_probs, alias.n_states, rn1, rn2)
       IN alias' = [alias EXCEPT !.phase = "sampled",
                                 !.n_drawn = @ + 1,
                                 !.sample = smp,
                                 !.cumu_samp[smp] = @ + 1]
    /\ UNCHANGED <<vec, send_, err, nops, disk, saved, loaded, made, comp, add_size, wire>>

InitAlias ==
    /\ vec = [p \in Procs |-> DistVecInit(InitSize)]
    /\ send_ = AdderInit
    /\ err = "none"
    /\ nops = 0
    /\ disk = NoDisk
    /\ saved = [p \in Procs |-> {}]
    /\ loaded = FALSE
    /\ made = NoSlots
    /\ comp = Idle
    /\ add_size = AdderSize
    /\ wire = Idle
    /\ \E n_states \in 1 .. MaxStates :
          \E probs \in ProbVecs(n_states) : alias = AliasInput(n_states, probs)

NextAlias == SetupAlias \/ SampleAlias

SpecAlias == InitAlias /\ [][NextAlias]_vars

(***************************************************************************)
(* DistVec::multi_dot (FRIES/vec_utils.hpp): every process sends its       *)
(* elements to their owners in rounds of at most adder_size() elements; a  *)
(* round ends with sum_mpi and Adder::perform_dot, both collective         *)
(***************************************************************************)
MaxDot == 2          \* largest number of elements given to multi_dot on a process

DotVals == {0, 1}

RECURSIVE dot(_, _, _)
\* DistVec::dot with one column of results: the sum of vals2[hf_idx] times
\* the stored value over the first num2 received indices that the hash
\* table holds; the table is read without insertion
dot(v, batch, num2) ==
    IF num2 = 0 THEN 0
    ELSE dot(v, batch, num2 - 1) +
         (IF ht_has(v.vec_hash_, batch[num2][1])
          THEN batch[num2][2] * v.values_[v.curr_vec_idx_][v.vec_hash_[batch[num2][1]]]
          ELSE 0)

\* Adder::perform_dot on process q: the received batches of all processes
\* in turn
perform_dot(v, snd, q) == dot(v, recv_all(snd, q, 0), Len(recv_all(snd, q, 0)))

\* one pass of the inner loop of multi_dot with the result r of add
md_added(s, r) ==
    [s EXCEPT !.snd = r.snd, !.thrown = r.thrown,
              !.num_added = @ + 1, !.el_idx = @ + 1]

RECURSIVE md_fill(_, _, _)
\* the rest of the inner loop from each state of S (S holds one state)
md_rest(S, in, max_add) ==
    CHOOSE r \in {md_fill(s, in, max_add) : s \in S} : TRUE

\* while (el_idx < num && num_added < max_add) of multi_dot
md_fill(s, in, max_add) ==
    IF s.thrown \/ ~(s.el_idx < Len(in) /\ s.num_added < max_add) THEN s
    ELSE IF in[s.el_idx + 1][2] /= 0
    THEN md_rest({md_added(s, add_orbs(s.snd, in[s.el_idx + 1][1],
                                       gen_orb_list(in[s.el_idx + 1][1]),
                                       in[s.el_idx + 1][2], 0))},
                 in, max_add)
    ELSE md_rest({[s EXCEPT !.el_idx = @ + 1]}, in, max_add)

\* a loop test on the process's own count
md_sum_local(sh, p) == sh[p].num_added

\* num_added = sum_mpi(num_added, proc_rank, n_procs) on process p
md_sum(sh, p) == sum_mpi([q \in Procs |-> sh[q].num_added], NProcs)

\* the inner loop on process p (lines 299-306); adder_size() is add_size
DotFill(p) ==
    /\ comp.phase = "dot"
    /\ err = "none"
    /\ comp.sh[p].pc = 299
    /\ \E s \in {md_fill([snd |-> send_[p], thrown |-> FALSE, num_added |-> 0,
                          el_idx |-> comp.sh[p].el_idx], comp.in[p], add_size)} :
          /\ send_' = [send_ EXCEPT ![p] = s.snd]
          /\ err' = IF s.thrown THEN "adder_full" ELSE err
          /\ comp' = [comp EXCEPT !.sh[p] = [@ EXCEPT !.pc = 307,
                                                      !.el_idx = s.el_idx,
                                                      !.num_added = s.num_added]]
    /\ UNCHANGED <<vec, nops, disk, saved, loaded, made, alias, add_size, wire>>

\* line 307: the Allgather of sum_mpi returns on all processes
DotSum ==
    /\ comp.phase = "dot"
    /\ err = "none"
    /\ AllAt(307)
    /\ comp' = [comp EXCEPT !.sh = [p \in Procs |->
                   [comp.sh[p] EXCEPT !.pc = 308, !.num_added = md_sum(comp.sh, p)]]]
    /\ UNCHANGED <<vec, send_, err, nops, disk, saved, loaded, made, alias, add_size, wire>>

\* line 308: the exchange of perform_dot, the dot product of what arrived
\* with the stored vector, the reset of send_cts_, and the test of the
\* outer loop; got is the history of what each process received
PerformDot ==
    /\ comp.phase = "dot"
    /\ err = "none"
    /\ AllAt(308)
    /\ comp' = [comp EXCEPT
                  !.sh = [p \in Procs |->
                     [comp.sh[p] EXCEPT
                        !.pc = IF comp.sh[p].num_added > 0 THEN 299 ELSE 310,
                        !.rounds = @ + 1,
                        !.tot_dprod = @ + perform_dot(vec[p], send_, p)]],
                  !.got = [p \in Procs |-> comp.got[p] \o recv_all(send_, p, 0)]]
    /\ send_' = AdderInit
    /\ UNCHANGED <<vec, err, nops, disk, saved, loaded, made, alias, add_size, wire>>

RECURSIVE stored_batch(_, _)
\* the elements of S that process q owns, as perform_add delivers them
stored_batch(S, q) ==
    IF S = {} THEN << >>
    ELSE LET k == CHOOSE x \in S : \A y \in S : x <= y
         IN (IF idx_to_proc(k) = q THEN <<<<buffered_idx(k, n_bits, 1), 1>>>> ELSE << >>)
               \o stored_batch(S \ {k}, q)

\* the lists of at most MaxDot elements <<idx, val>>
DotInputs ==
    UNION {[1 .. n -> InputKeys \X DotVals] : n \in 0 .. MaxDot}

\* the indices of S arrive with their initiator flags and are stored by
\* add_elements on their owners, before any process calls multi_dot
DotStore(S) ==
    /\ comp.phase = "dot"
    /\ AllAt(287)
    /\ nops = 0
    /\ nops' = 1
    /\ \E w \in {[q \in Procs |-> add_elements(vec[q], stored_batch(S, q), 0).v]} :
          /\ vec' = w
          /\ comp' = [comp EXCEPT !.vec0 = w]
    /\ UNCHANGED <<send_, err, disk, saved, loaded, made, alias, add_size, wire>>

\* process p calls multi_dot with its list (lines 287-297)
DotEnter(p, in) ==
    /\ comp.phase = "dot"
    /\ comp.sh[p].pc = 287
    /\ comp' = [comp EXCEPT !.in[p] = in, !.sh[p].pc = 299]
    /\ UNCHANGED <<vec, send_, err, nops, disk, saved, loaded, made, alias, add_size, wire>>

\* no process has called multi_dot yet
InitDot ==
    /\ vec = [p \in Procs |-> DistVecInit(InitSize)]
    /\ send_ = AdderInit
    /\ err = "none"
    /\ nops = 0
    /\ disk = NoDisk
    /\ saved = [p \in Procs |-> {}]
    /\ loaded = FALSE
    /\ made = NoSlots
    /\ alias = Idle
    /\ add_size \in AdderSize .. (AdderSize + 1)
    /\ wire = Idle
    /\ comp = [phase |-> "dot",
               in |-> [p \in Procs |-> << >>],
               vec0 |-> vec,
               got |-> [p \in Procs |-> << >>],
               sh |-> [p \in Procs |->
                         [pc |-> 287, el_idx |-> 0, num_added |-> 0,
                          rounds |-> 0, tot_dprod |-> 0]]]

NextDot ==
    \/ DotStore(InputKeys)
    \/ \E p \in Procs, in \in DotInputs : DotEnter(p, in)
    \/ \E p \in Procs : DotFill(p)
    \/ DotSum
    \/ PerformDot

\* a process that can enter or run its inner loop does so, and a
\* collective that all processes wait in returns
SpecDot ==
    /\ InitDot
    /\ [][NextDot]_vars
    /\ WF_vars(DotSum)
    /\ WF_vars(PerformDot)
    /\ \A p \in Procs :
          WF_vars(DotFill(p)) /\ WF_vars(\E in \in DotInputs : DotEnter(p, in))

(***************************************************************************)
(* Properties of the DistVec: hash index, deletion, admission              *)
(***************************************************************************)
Slots(v) == 0 .. (v.max_size_ - 1)

\* C1: on every process the hash index and the active slots are in
\* bijection: every active slot lies below curr_size_ and its index is a key
\* of the hash table that maps to that slot, and every key of the hash table
\* maps to an active slot below curr_size_ that holds this key.
C1_HashBijection ==
    \A p \in Procs :
        LET v == vec[p]
        IN /\ \A pos \in Slots(v) :
                 v.active_pos_[pos] =>
                     /\ pos < v.curr_size_
                     /\ ht_has(v.vec_hash_, v.indices_[pos])
                     /\ v.vec_hash_[v.indices_[pos]] = pos
           /\ \A key \in DOMAIN v.vec_hash_ :
                 /\ v.vec_hash_[key] \in 0 .. (v.curr_size_ - 1)
                 /\ v.active_pos_[v.vec_hash_[key]]
                 /\ v.indices_[v.vec_hash_[key]] = key

\* a process that holds an element and has freed a slot
C1_Witness ==
    \E p \in Procs : vec[p].n_nonz_ >= 1 /\ vec[p].vec_stack_ /= << >>

\* C2: every slot of the dense subspace (position below n_dense_) is active
\* in every reachable state, whatever min_del_idx_ is.
C2_DenseNeverRemoved ==
    \A p \in Procs :
        \A pos \in Slots(vec[p]) : pos < vec[p].n_dense_ => vec[p].active_pos_[pos]

\* what a step of del_at_pos or cleanup on process p may do to a slot
SlotKept(p, pos) ==
    /\ vec'[p].active_pos_[pos]
    /\ vec'[p].indices_[pos] = vec[p].indices_[pos]
    /\ \A r \in VecIdx : vec'[p].values_[r][pos] = vec[p].values_[r][pos]

Deletable(v, pos) ==
    /\ pos >= v.min_del_idx_
    /\ \A r \in VecIdx : v.values_[r][pos] = 0

KeyMap(v) ==
    LET act == {pos \in Slots(v) : v.active_pos_[pos]}
    IN [key \in {v.indices_[pos] : pos \in act} |->
          LET pos == CHOOSE c \in act : v.indices_[c] = key
          IN [r \in VecIdx |-> v.values_[r][pos]]]

RECURSIVE Admit(_, _, _, _)
\* the elements after the contributions of batch, in their order, by the
\* initiator rule
Admit(m, batch, origin, cur) ==
    IF batch = << >> THEN m
    ELSE LET flag == read_bit(batch[1][1], n_bits)
             key == batch[1][1] % Pow2(n_bits)
             val == batch[1][2]
             m1 == IF key \in DOMAIN m
                   THEN IF flag = 1 \/ m[key][origin] /= 0
                        THEN [m EXCEPT ![key][cur] = @ + val]
                        ELSE m
                   ELSE IF flag = 1
                        THEN [k \in DOMAIN m \cup {key} |->
                                 IF k = key
                                 THEN [r \in VecIdx |-> IF r = cur THEN val ELSE 0]
                                 ELSE m[k]]
                        ELSE m
         IN Admit(m1, Tail(batch), origin, cur)

\* C10: in a step of perform_add every process applies its received
\* contributions (key, val, flag) in turn: with flag 0 no slot is created, an
\* absent key leaves the elements as they were, and a present key receives
\* val iff its value in the origin column is not zero; with flag 1 the value
\* is always added, and an absent key gets a new slot that holds val in the
\* current column and zero in the others.
C10_Admission ==
    [][\A origin \in VecIdx : PerformAdd(origin) =>
          \A q \in Procs :
              /\ KeyMap(vec'[q]) =
                    Admit(KeyMap(vec[q]), recv_all(send_, q, 0), origin,
                          vec[q].curr_vec_idx_)
              /\ vec'[q].n_nonz_ = Cardinality(DOMAIN KeyMap(vec'[q]))]_vars

\* a contribution without the flag was added to an occupied element, and
\* another element exists whose origin value is zero
C10_Witness ==
    \E p \in Procs :
        /\ vec[p].nonini_occ_add >= 1
        /\ vec[p].n_nonz_ >= 1

(***************************************************************************)
(* save and load                                                           *)
(***************************************************************************)
\* every index of an active slot resolves through the hash table to an
\* active slot that holds this index
KeysResolve(v) ==
    \A pos \in Slots(v) :
        v.active_pos_[pos] =>
            /\ ht_has(v.vec_hash_, v.indices_[pos])
            /\ v.vec_hash_[v.indices_[pos]] \in 0 .. (v.curr_size_ - 1)
            /\ v.active_pos_[v.vec_hash_[v.indices_[pos]]]
            /\ v.indices_[v.vec_hash_[v.indices_[pos]]] = v.indices_[pos]

\* C8 as stated: after load every process holds the (index, values) pairs
\* its object held when it was saved, and every loaded index resolves.
C8_RoundTripExact ==
    loaded => \A p \in Procs : Pairs(vec[p]) = saved[p] /\ KeysResolve(vec[p])

\* the pairs of the stored positions of a file that load takes: those of
\* the dense subspace and those with a value above the cut in some column
FilePairs(file) ==
    {<<file.dets[c], [r \in VecIdx |-> file.vals[r][c]]>> :
        c \in {d \in 1 .. Len(file.dets) :
                  \/ d - 1 < file.dense
                  \/ \E r \in VecIdx : Abs(file.vals[r][d]) > LoadTol}}

\* C8: after load into fresh objects every process holds exactly the pairs
\* of the stored positions (active or freed) of its file that lie in the
\* dense subspace or hold a value of magnitude above 1e-9 in some column, in
\* as many slots as there are such positions, and every loaded index
\* resolves through the hash table to a loaded slot that holds it.
C8_RoundTrip ==
    loaded =>
        \A p \in Procs :
            /\ Pairs(vec[p]) = FilePairs(disk.file[p])
            /\ vec[p].n_nonz_ = vec[p].curr_size_
            /\ \A pos \in Slots(vec[p]) : vec[p].active_pos_[pos] <=> pos < vec[p].curr_size_
            /\ KeysResolve(vec[p])

\* a load that kept one stored position and dropped another
C8_Witness ==
    /\ loaded
    /\ \E p \in Procs :
          /\ Pairs(vec[p]) /= {}
          /\ vec[p].curr_size_ < Len(disk.file[p].dets)

(***************************************************************************)
(* Properties of the compression                                           *)
(***************************************************************************)
RECURSIVE SumSeq(_, _)
SumSeq(f, n) == IF n = 0 THEN 0 ELSE SumSeq(f, n - 1) + f[n]

Min(a, b) == IF a < b THEN a ELSE b

Elems == {<<p, i>> \in Procs \X (1 .. VecLen) : i <= Len(comp.vals[p])}

NnzIn == Cardinality({e \in Elems : comp.vals[e[1]][e[2]] /= 0})

NnzOut == Cardinality({e \in Elems : comp.out[e[1]].vec_vals[e[2]].num /= 0})

Kept(e) == comp.keep_idx[e[1]][e[2]] = 1

\* the one-norm of the elements that find_preserve did not keep
ResNorm ==
    SumSeq([q \in 1 .. NProcs |->
               SumSeq([i \in 1 .. Len(comp.vals[q - 1]) |->
                          IF comp.keep_idx[q - 1][i] = 1 THEN 0
                          ELSE Abs(comp.vals[q - 1][i])],
                      Len(comp.vals[q - 1]))], NProcs)

\* the sampling was not cut short by the test of the residual norm
NotCut == ResNorm = 0 \/ ResNorm >= TinyNorm

\* C3 as stated: after find_preserve and sys_comp the vector holds exactly
\* min(n_samp, nnz) nonzero elements, for every input, budget, split and draw.
C3_ExactCountAlways ==
    comp.phase = "sampled" => NnzOut = Min(comp.target, NnzIn)

\* C3: after find_preserve and sys_comp the vector holds exactly
\* min(n_samp, nnz) nonzero elements whenever the one-norm of the elements
\* not kept exactly is zero or at least 1e-9; when it lies below 1e-9 and
\* is not zero, only the nonzero elements kept exactly remain.
C3_ExactCount ==
    comp.phase = "sampled" =>
        IF NotCut THEN NnzOut = Min(comp.target, NnzIn)
        ELSE NnzOut = Cardinality({e \in Elems : Kept(e) /\ comp.vals[e[1]][e[2]] /= 0})

\* a draw on a residual of at least two elements with budget left
C3_Witness ==
    /\ comp.phase = "sampled"
    /\ comp.n_samp[0] >= 1
    /\ Cardinality({e \in Elems : ~Kept(e) /\ comp.vals[e[1]][e[2]] /= 0}) >= 2
    /\ \E e \in Elems : Kept(e)
    /\ NnzOut = comp.target

\* the magnitude of element e is at least global_norm / target
Large(e) == Abs(comp.vals[e[1]][e[2]]) * comp.target >= comp.global_norm

KeptExactly(e) ==
    /\ Kept(e)
    /\ comp.phase = "sampled" =>
           comp.out[e[1]].vec_vals[e[2]] = Rat(comp.vals[e[1]][e[2]], 1)

\* C4 as stated: every element of magnitude at least (global one-norm) /
\* n_samp is marked by find_preserve and keeps its value in sys_comp.
C4_LargeKeptAlways ==
    comp.phase \in {"preserved", "sampled"} =>
        \A e \in Elems : Large(e) => KeptExactly(e)

\* C4: every nonzero element of magnitude at least (global one-norm) /
\* n_samp is marked by find_preserve and holds its original value after
\* sys_comp, for every draw and split; every element of such magnitude, zero
\* or not, holds its original value after sys_comp; and sys_comp leaves the
\* value of every marked element as it was.
C4_LargeKept ==
    comp.phase \in {"preserved", "sampled"} =>
        /\ \A e \in Elems :
              Large(e) /\ comp.vals[e[1]][e[2]] /= 0 => KeptExactly(e)
        /\ \A e \in Elems :
              (Large(e) \/ Kept(e)) /\ comp.phase = "sampled" =>
                  comp.out[e[1]].vec_vals[e[2]] = Rat(comp.vals[e[1]][e[2]], 1)

\* a draw on a vector with a kept element next to sampled ones
C4_Witness ==
    /\ comp.phase = "sampled"
    /\ \E e \in Elems : Large(e) /\ comp.vals[e[1]][e[2]] /= 0 /\ comp.global_norm > Abs(comp.vals[e[1]][e[2]])
    /\ \E e \in Elems : ~Kept(e) /\ comp.out[e[1]].vec_vals[e[2]].num /= 0

\* all the draws of the grid have been made
AllDrawn == comp.phase = "sampled" /\ comp.trial = GridDen(comp)

\* the divisor of the sampled values
Budget == IF comp.n_samp[0] = 0 THEN 1 ELSE comp.n_samp[0]

\* the mean over the draws of the value of element e equals x
MeanIs(e, x) == comp.acc[e[1]][e[2]] = x * Budget * GridDen(comp)

\* C5 as stated: for every input the mean of every compressed element over
\* the draws equals its original weight.
C5_UnbiasedAlways ==
    AllDrawn => \A e \in Elems : MeanIs(e, comp.vals[e[1]][e[2]])

\* C5: the mean of every compressed element over the draws equals its
\* original weight whenever the one-norm of the elements not kept exactly
\* is zero or at least 1e-9; when it lies below 1e-9 and is not zero, the
\* kept elements hold their weights and the others are zero in every draw.
C5_Unbiased ==
    AllDrawn =>
        \A e \in Elems :
            IF NotCut \/ Kept(e) THEN MeanIs(e, comp.vals[e[1]][e[2]])
            ELSE MeanIs(e, 0)

\* all draws made on a residual of two or more elements with budget left
C5_Witness ==
    /\ AllDrawn
    /\ comp.n_samp[0] >= 1
    /\ comp.trial >= 2
    /\ Cardinality({e \in Elems : ~Kept(e) /\ comp.vals[e[1]][e[2]] /= 0}) >= 2

\* the residual magnitude of an element: zero for a kept one
Resid(p, i) == IF comp.keep_idx[p][i] = 1 THEN 0 ELSE Abs(comp.vals[p][i])

\* the cumulative residual norm before element e, in rank-then-index order
CumBefore(e) ==
    SumSeq([q \in 1 .. NProcs |->
               IF q - 1 < e[1]
               THEN SumSeq([i \in 1 .. Len(comp.vals[q - 1]) |-> Resid(q - 1, i)],
                           Len(comp.vals[q - 1]))
               ELSE IF q - 1 = e[1]
               THEN SumSeq([i \in 1 .. (e[2] - 1) |-> Resid(e[1], i)], e[2] - 1)
               ELSE 0], NProcs)

\* the pivots (rn + k) * R / m, k in 0 .. m-1, inside the interval of e;
\* with rn = j / d the test c1 <= (j / d + k) * R / m < c2 is multiplied
\* by m * d
PivotsIn(e) ==
    LET m == comp.n_samp[0]
        d == comp.rand_num.den
        j == comp.rand_num.num
        c1 == CumBefore(e)
        c2 == c1 + Resid(e[1], e[2])
    IN {k \in 0 .. (m - 1) :
           /\ c1 * m * d <= (j + k * d) * ResNorm
           /\ (j + k * d) * ResNorm < c2 * m * d}

\* C6: with budget m >= 1 left by find_preserve and residual norm R, every
\* element that was not kept is set by sys_comp to sign(w) * R / m iff a
\* pivot lies in its half-open cumulative interval, and to 0 otherwise, and
\* no element receives more than one pivot.
C6_Pivots ==
    (comp.phase = "sampled" /\ comp.n_samp[0] >= 1) =>
        \A e \in Elems :
            ~Kept(e) =>
                /\ Cardinality(PivotsIn(e)) <= 1
                /\ comp.out[e[1]].vec_vals[e[2]] =
                      IF PivotsIn(e) /= {}
                      THEN Rat(Sign(comp.vals[e[1]][e[2]]) * ResNorm, comp.n_samp[0])
                      ELSE Rat(0, 1)

\* a draw inside a cell that picked an element of the second process and
\* zeroed another element
C6_Witness ==
    /\ comp.phase = "sampled"
    /\ comp.n_samp[0] >= 1
    /\ comp.rand_num.num >= 1
    /\ \E e \in Elems : e[1] >= 1 /\ ~Kept(e) /\ PivotsIn(e) /= {} /\ CumBefore(e) > 0
    /\ \E e \in Elems : ~Kept(e) /\ comp.vals[e[1]][e[2]] /= 0 /\ PivotsIn(e) = {}

\* the budget never wraps while the residual norm is not cut
BudgetHeld ==
    comp.phase \in {"preserved", "sampled"} =>
        \A p \in Procs : comp.n_samp[p] >= 0 /\ comp.n_samp[p] = comp.n_samp[0]

(***************************************************************************)
(* Properties of the alias method                                          *)
(***************************************************************************)
\* the probability that a sample is s, times n_states * ProbDen
Marginal(a, st) ==
    a.alias_probs[st] +
    SumSeq([j \in 1 .. a.n_states |->
               IF j - 1 /= st /\ a.aliases[j - 1] = st
               THEN ProbDen - a.alias_probs[j - 1] ELSE 0], a.n_states)

\* C7: for a probability vector that sums to 1 the table of setup_alias has
\* every alias_probs[i] in [0, 1] and every aliases[i] in 0 .. n-1, the
\* probability (1/n) * (alias_probs[s] + sum over j /= s with aliases[j] = s
\* of (1 - alias_probs[j])) equals probs[s] for every state s, and over the
\* whole grid of draws sample_alias returns s that share of the times.
C7_AliasTable ==
    alias.phase \in {"table", "sampled"} =>
        /\ \A i \in States(alias.n_states) :
              /\ alias.alias_probs[i] >= 0
              /\ alias.alias_probs[i] <= ProbDen
              /\ alias.aliases[i] \in States(alias.n_states)
        /\ \A st \in States(alias.n_states) :
              Marginal(alias, st) = alias.n_states * alias.probs[st]
        /\ alias.n_drawn = NDraws(alias) =>
              \A st \in States(alias.n_states) :
                  alias.cumu_samp[st] = alias.n_states * alias.probs[st] * ProbDen

\* every draw made on a table in which one state is the alias of two others
C7_Witness ==
    /\ alias.phase = "sampled"
    /\ alias.n_drawn = NDraws(alias)
    /\ \E i \in States(alias.n_states), j \in States(alias.n_states) :
          /\ i /= j
          /\ alias.aliases[i] = alias.aliases[j]
          /\ alias.aliases[i] \notin {i, j}
          /\ alias.alias_probs[i] > 0

(***************************************************************************)
(* Properties of add, perform_add and the routing of indices               *)
(***************************************************************************)
\* C11: when a step of perform_add brings the current value of an active
\* slot at or above min_del_idx_ and outside the dense subspace from a
\* nonzero value to exactly zero, the slot is not active after the step.
C11_DeleteOnZero ==
    [][\A origin \in VecIdx : PerformAdd(origin) =>
          \A q \in Procs :
              \A pos \in Slots(vec[q]) :
                  LET cur == vec[q].curr_vec_idx_
                  IN (/\ vec[q].active_pos_[pos]
                      /\ pos >= vec[q].min_del_idx_
                      /\ pos >= vec[q].n_dense_
                      /\ vec[q].values_[cur][pos] /= 0
                      /\ vec'[q].values_[cur][pos] = 0)
                         => ~vec'[q].active_pos_[pos]]_vars


\* one entry more at the end of the buffer of process p for destination d,
\* every other buffer as before
AppendedOne(p, d) ==
    /\ Len(send_'[p][d]) = Len(send_[p][d]) + 1
    /\ SubSeq(send_'[p][d], 1, Len(send_[p][d])) = send_[p][d]
    /\ \A q \in Procs, e \in Procs : (q /= p \/ e /= d) => send_'[q][e] = send_[q][e]

\* C12: a call of a single-value overload of DistVec::add that returns
\* leaves the storage of every process unchanged; with a nonzero value it
\* appends exactly one entry to the send buffer for idx_to_proc(idx) and
\* changes no other buffer; with a value of exactly zero it changes no buffer.
C12_AddFrame ==
    [][\A p \in Procs, idx \in InputKeys, val \in AllVals, ini_flag \in {0, 1} :
          (AddVal(p, idx, val, ini_flag, idx_to_proc(idx)) \/ AddOrbs(p, idx, val, ini_flag))
             => /\ vec' = vec
                /\ (val /= 0 /\ err' = "none") => AppendedOne(p, idx_to_proc(idx))
                /\ val = 0 => send_' = send_]_vars


RECURSIVE Routed(_, _)
\* the entries of a buffer whose key belongs to process q, in their order
Routed(buf, q) ==
    IF buf = << >> THEN << >>
    ELSE (IF idx_to_proc(buf[1][1] % Pow2(n_bits)) = q THEN <<buf[1]>> ELSE << >>)
             \o Routed(Tail(buf), q)

RECURSIVE Inbox(_, _)
\* every entry buffered on any process for any destination whose key belongs
\* to process q: the pair k counts the buffers in the order of the senders
Inbox(q, k) ==
    IF k >= NProcs * NProcs THEN << >>
    ELSE Routed(send_[k \div NProcs][k % NProcs], q) \o Inbox(q, k + 1)

\* the number of entries in all send buffers
Buffered == SumSeq([k \in 1 .. (NProcs * NProcs) |->
                       Len(send_[(k - 1) \div NProcs][(k - 1) % NProcs])],
                   NProcs * NProcs)

\* C13: after a step of perform_add that completes, every process q holds
\* its previous elements with the contributions of exactly the buffered
\* entries whose key has idx_to_proc(key) = q applied once each, in the order
\* of the senders (the value in the current column is the previous value plus
\* the admitted contributions); the entries of the processes together are all
\* the buffered entries; every send buffer is empty, and a further
\* perform_add on the empty buffers changes no object.
C13_PerformAdd ==
    [][\A origin \in VecIdx : (PerformAdd(origin) /\ err' = "none") =>
          /\ \A q \in Procs :
                KeyMap(vec'[q]) =
                    Admit(KeyMap(vec[q]), Inbox(q, 0), origin, vec[q].curr_vec_idx_)
          /\ SumSeq([k \in 1 .. NProcs |-> Len(Inbox(k - 1, 0))], NProcs) = Buffered
          /\ \A p \in Procs, d \in Procs : send_'[p][d] = << >>
          /\ \A q \in Procs, o \in VecIdx :
                perform_add_on(vec'[q], send_', q, o) = [v |-> vec'[q], err |-> FALSE]]_vars

\* after perform_add an element holds the sum -2 of two contributions of -1
C13_Witness ==
    /\ \A p \in Procs, d \in Procs : send_[p][d] = << >>
    /\ \E q \in Procs : \E pos \in Slots(vec[q]) :
           /\ vec[q].active_pos_[pos]
           /\ vec[q].values_[vec[q].curr_vec_idx_][pos] = -2
           /\ vec[q].values_[1 - vec[q].curr_vec_idx_][pos] = 0


\* C14: Adder::add on a destination buffer that holds add_size entries
\* raises the error and leaves every buffer as it was; an add that succeeds
\* returns false when it fills the last free position and true before; and a
\* call of DistVec::add that returns gives true exactly when the buffer of
\* its destination is not full after the call.
C14_AddReturn ==
    [][\A p \in Procs, idx \in InputKeys, val \in AllVals, ini_flag \in {0, 1} :
          LET d == idx_to_proc(idx)
              a == Adder_add(send_[p], idx, n_bits, val, d, ini_flag)
              r == add_val(send_[p], idx, val, ini_flag, d)
              o == add_orbs(send_[p], idx, gen_orb_list(idx), val, ini_flag)
          IN /\ Len(send_[p][d]) >= add_size => (a.thrown /\ a.snd = send_[p])
             /\ Len(send_[p][d]) < add_size =>
                   (~a.thrown /\ (a.ret <=> Len(send_[p][d]) + 1 < add_size))
             /\ (AddOrbs(p, idx, val, ini_flag) /\ ~o.thrown) =>
                   (o.ret <=> Len(send_'[p][d]) < add_size)
             /\ (AddOrbs(p, idx, val, ini_flag) /\ o.thrown) =>
                   (err' = "adder_full" /\ send_' = send_)
             /\ (AddVal(p, idx, val, ini_flag, d) /\ r.thrown) =>
                   (err' = "adder_full" /\ send_' = send_)
             /\ (AddVal(p, idx, val, ini_flag, d) /\ ~r.thrown) =>
                   (r.ret <=> Len(send_'[p][d]) < add_size)]_vars


\* C15: a call of add with a nonzero value for an index whose number of set
\* bits is not n_elec ends in the error of a wrong number of electrons (its
\* idx_to_proc fails), and no active slot of any process ever holds such an
\* index.
C15_CountChecked ==
    [][/\ \A p \in Procs, idx \in BadKeys, val \in AddVals, ini_flag \in {0, 1} :
             \A proc_idx \in idx_to_proc_any(idx) :
                 AddVal(p, idx, val, ini_flag, proc_idx) =>
                     (err' = "bad_index" /\ send_' = send_)
       /\ \A q \in Procs : \A pos \in Slots(vec'[q]) :
             vec'[q].active_pos_[pos] => idx_to_hash_ok(vec'[q].indices_[pos])]_vars


\* the active slots of process q
ActiveAt(q) == {pos \in Slots(vec[q]) : vec[q].active_pos_[pos]}

\* C16: idx_to_proc gives every index one process id in 0 .. NProcs-1 (it
\* depends on the index and the common scrambler only); every active slot of
\* process q holds an index with idx_to_proc(index) = q, and no index is
\* active on two processes.
C16_Ownership ==
    /\ \A idx \in ValidKeys : idx_to_proc(idx) \in Procs
    /\ \A q \in Procs : \A pos \in ActiveAt(q) : idx_to_proc(vec[q].indices_[pos]) = q
    /\ \A p \in Procs, q \in Procs : \A a \in ActiveAt(p), b \in ActiveAt(q) :
           vec[p].indices_[a] = vec[q].indices_[b] => p = q

\* both processes hold active slots, one of them two
C16_Witness ==
    /\ \A q \in Procs : ActiveAt(q) /= {}
    /\ \E q \in Procs : Cardinality(ActiveAt(q)) >= 2


\* double local_norm() const: the sum runs over every position below curr_size_
local_norm(v) ==
    SumSeq([k \in 1 .. v.curr_size_ |-> Abs(v.values_[v.curr_vec_idx_][k - 1])], v.curr_size_)

RECURSIVE SumOver(_, _)
\* the sum of |value| in the current column over the positions of S
SumOver(v, S) ==
    IF S = {} THEN 0
    ELSE LET pos == CHOOSE x \in S : TRUE
         IN Abs(v.values_[v.curr_vec_idx_][pos]) + SumOver(v, S \ {pos})

\* C17: on every process local_norm() is the sum of |value| over the active
\* slots, and every slot below curr_size_ that is not active holds exactly
\* zero in every column.
C17_FreedAreZero ==
    \A q \in Procs :
        /\ local_norm(vec[q]) = SumOver(vec[q], ActiveAt(q))
        /\ \A pos \in 0 .. (vec[q].curr_size_ - 1) :
               ~vec[q].active_pos_[pos] => \A r \in VecIdx : vec[q].values_[r][pos] = 0

\* a freed slot lies beside an active slot with a nonzero value
C17_Witness ==
    \E q \in Procs :
        /\ \E pos \in 0 .. (vec[q].curr_size_ - 1) : ~vec[q].active_pos_[pos]
        /\ \E pos \in ActiveAt(q) : vec[q].values_[vec[q].curr_vec_idx_][pos] /= 0


(***************************************************************************)
(* The cut of find_preserve at a norm of 1e-9                              *)
(***************************************************************************)
\* the one-norm of the vector given to find_preserve
InNorm ==
    SumSeq([q \in 1 .. NProcs |->
               SumSeq([i \in 1 .. Len(comp.vals[q - 1]) |-> Abs(comp.vals[q - 1][i])],
                      Len(comp.vals[q - 1]))], NProcs)

\* C18 as stated: when the one-norm of the vector given to find_preserve is
\* below 1e-9, n_samp is set to 0 and every element is zero after sys_comp.
C18_TinyNormEmpty ==
    (comp.phase \in {"preserved", "sampled"} /\ InNorm < TinyNorm) =>
        /\ \A p \in Procs : comp.n_samp[p] = 0
        /\ comp.phase = "sampled" => NnzOut = 0

\* C18: when the one-norm of the elements that find_preserve does not keep
\* exactly is below 1e-9 (as it is when the one-norm of the whole vector
\* is), n_samp is set to 0 and the returned norms are 0; after sys_comp
\* every element not kept exactly is zero and every kept element holds its
\* value.
C18_TinyNormCut ==
    /\ InNorm < TinyNorm => ResNorm < TinyNorm
    /\ (comp.phase \in {"preserved", "sampled"} /\ ResNorm < TinyNorm) =>
          /\ \A p \in Procs : comp.n_samp[p] = 0 /\ comp.loc_norms[p] = 0
          /\ comp.phase = "sampled" =>
                \A e \in Elems :
                    comp.out[e[1]].vec_vals[e[2]] =
                        (IF Kept(e) THEN Rat(comp.vals[e[1]][e[2]], 1) ELSE Rat(0, 1))

\* sys_comp ran with a budget of at least 1 on a vector of norm below 1e-9
\* with two nonzero elements that were not kept
C18_Witness ==
    /\ comp.phase = "sampled"
    /\ comp.target >= 1
    /\ InNorm < TinyNorm
    /\ ResNorm > 0
    /\ Cardinality({e \in Elems : ~Kept(e) /\ comp.vals[e[1]][e[2]] /= 0}) >= 2


(***************************************************************************)
(* The initiator flag in the buffered index                                *)
(***************************************************************************)
\* keep_idx and sub_weights were given with different numbers of columns
ColsDiffer == \E p \in Procs : comp.in[p].keep_cols /= comp.in[p].sub_cols

\* C19: a call of comp_sub with keep_idx and sub_weights of different column
\* counts is fatal, and it leaves keep_idx, wt_remain and the new entries as
\* they were: neither find_keep_sub nor sys_sub has run.
C19_MismatchFatal ==
    [][(comp.phase = "sub_input" /\ comp'.phase = "sub_done" /\ ColsDiffer) =>
          /\ err' /= "none"
          /\ comp'.keep_idx = comp.keep_idx
          /\ comp'.wt_remain = comp.wt_remain
          /\ comp'.new = comp.new]_vars

\* what the code does on different column counts: the fixed message on
\* stderr, the return value 0 on every process, the arrays as they were
C19_MismatchReturnsZero ==
    [][(comp.phase = "sub_input" /\ comp'.phase = "sub_done" /\ ColsDiffer) =>
          /\ err' = err
          /\ comp'.stderr = "Error in comp_sub: column dimension of sub_weights does not equal column dimension of keep_idx."
          /\ \A p \in Procs : comp'.ret[p] = 0
          /\ comp'.keep_idx = comp.keep_idx
          /\ comp'.wt_remain = comp.wt_remain
          /\ comp'.new = comp.new]_vars

\* the caller went on after a call with different column counts
C19_CallerGoesOn == comp.phase = "sub_used" /\ ColsDiffer

\* C20: the flag travels in bit idx_bits of the buffered index whatever the
\* position of the buffer held before; add_elements recovers the index and
\* the flag that were given to Adder::add, and the index it hashes and
\* stores has no bit at or above idx_bits; for idx_bits = n_bits the buffered
\* index is the one of the send buffers, and add_elements on an empty vector
\* stores the index given to Adder::add.
C20_FlagRoundTrip ==
    /\ wire.phase \in {"packed", "recovered"} =>
          /\ read_bit(wire.buf, wire.bits) = wire.ini_flag
          /\ wire.buf < Pow2(8 * CEILING(wire.bits + 1, 8))
          /\ wire.bits = n_bits =>
                /\ wire.buf = buffered_idx(wire.idx, n_bits, wire.ini_flag)
                /\ LET r == add_element(DistVecInit(InitSize), wire.buf, 1, 0)
                   IN (idx_to_hash_ok(wire.idx) /\ wire.ini_flag = 1) =>
                          (r.v.active_pos_[0] /\ r.v.indices_[0] = wire.idx)
    /\ wire.phase = "recovered" =>
          /\ wire.rec_idx = wire.idx
          /\ wire.rec_flag = wire.ini_flag
          /\ wire.rec_idx < Pow2(wire.bits)

\* an initiator index of a whole number of bytes came through a position of
\* the buffer that held ones, and one without the flag too
C20_Witness ==
    /\ wire.phase = "recovered"
    /\ wire.bits % 8 = 0
    /\ wire.old = Pow2(8 * CEILING(wire.bits + 1, 8)) - 1
    /\ wire.idx = Pow2(wire.bits) - 1
    /\ wire.ini_flag = 0

\* C21: a slot that add_elements creates is the top of the free stack if
\* there is one, and else the old curr_size_, which grows by one; around the
\* new contribution it holds nothing of the key stored there before: every
\* value column is zero but the current one, which holds the contribution,
\* the cached diagonal element is NaN and the orbitals are those of the new
\* key; and matr_el_at_pos returns diag_calc_ of the key stored at a position.
C21_SlotCreation ==
    \A p \in Procs :
       /\ \A i \in 1 .. Len(made[p]) :
             /\ made[p][i].pos = IF made[p][i].top /= -1 THEN made[p][i].top
                                 ELSE made[p][i].size
             /\ made[p][i].new_size = IF made[p][i].top /= -1 THEN made[p][i].size
                                      ELSE made[p][i].size + 1
             /\ \A r \in VecIdx :
                   made[p][i].values[r] =
                       IF r = made[p][i].curr THEN made[p][i].val ELSE 0
             /\ made[p][i].matr_el = NaN
             /\ made[p][i].occ_orbs = gen_orb_list(made[p][i].key)
       /\ \A pos \in 0 .. (vec[p].curr_size_ - 1) :
             matr_el_at_pos(vec[p], pos).ret =
                 diag_calc(gen_orb_list(vec[p].indices_[pos]))

\* add_elements took a slot from the free stack that held another key and
\* the cached diagonal element of that key
C21_Witness ==
    \E p \in Procs : \E i \in 1 .. Len(made[p]) :
       /\ made[p][i].top /= -1
       /\ made[p][i].old_key /= made[p][i].key
       /\ made[p][i].cached = diag_calc(gen_orb_list(made[p][i].old_key))

\* C22: expand doubles max_size_ and leaves curr_size_, n_nonz_, the free
\* stack, the hash table and everything stored below curr_size_ as they
\* were; add_elements calls it for a new slot exactly when the free stack is
\* empty and curr_size_ >= max_size_, and the slots stored before are the
\* same after that pass.
C22_Expand ==
    \A p \in Procs :
       /\ expand(vec[p]).max_size_ = 2 * vec[p].max_size_
       /\ expand(vec[p]).curr_size_ = vec[p].curr_size_
       /\ expand(vec[p]).n_nonz_ = vec[p].n_nonz_
       /\ expand(vec[p]).vec_stack_ = vec[p].vec_stack_
       /\ expand(vec[p]).vec_hash_ = vec[p].vec_hash_
       /\ same_below(vec[p], expand(vec[p]))
       /\ \A i \in 1 .. Len(made[p]) :
             /\ made[p][i].grown = (made[p][i].top = -1 /\ made[p][i].full)
             /\ made[p][i].grown => (made[p][i].doubled /\ made[p][i].kept)

\* add_elements expanded a vector that held a nonzero value in its second
\* column, and the next call of expand finds two stored elements
C22_Witness ==
    \E p \in Procs : \E i \in 1 .. Len(made[p]) :
       /\ made[p][i].grown
       /\ made[p][i].size >= 1
       /\ vec[p].curr_size_ = 2
       /\ \E pos \in 0 .. (made[p][i].size - 1) : vec[p].values_[NVecs - 1][pos] /= 0

\* the number of elements that process p has marked keep-exactly
NKept(p) == Cardinality({i \in DOMAIN comp.sh[p].keep_idx : comp.sh[p].keep_idx[i] = 1})

\* no process has left the loop of find_preserve while another is in it,
\* the processes have run the same number of passes, and processes at the
\* same line after the loop hold the same budget and the same residual norm
RoundsAgree ==
    \A p \in Procs, q \in Procs :
       /\ comp.sh[p].pc \in {72, 84} => comp.sh[q].pc \in {72, 84}
       /\ comp.sh[p].pc \in {41, 43, 68} => comp.sh[q].pc \in {comp.sh[p].pc, 45}
       /\ comp.sh[p].rounds = comp.sh[q].rounds
       /\ (comp.sh[p].pc = comp.sh[q].pc /\ comp.sh[p].pc \in {72, 84}) =>
              /\ comp.sh[p].n_samp = comp.sh[q].n_samp
              /\ comp.sh[p].glob_one_norm = comp.sh[q].glob_one_norm

AllReturned == \A p \in Procs : comp.sh[p].pc = 84

\* C23: the processes run the same number of passes of the outer loop of
\* find_preserve and enter the same reductions, none leaves the loop while
\* another waits in a reduction, every process returns, and they return
\* with the same n_samp and the same residual norm.
C23_LockStep == []RoundsAgree /\ <>AllReturned

\* all processes returned after three passes in which they marked different
\* numbers of elements
C23_Witness ==
    /\ AllReturned
    /\ \A p \in Procs : comp.sh[p].rounds >= 3
    /\ \E p \in Procs, q \in Procs : NKept(p) > NKept(q) /\ NKept(q) >= 1

\* C27: the elements marked keep-exactly on all processes together are never
\* more than the budget given to find_preserve, and the remaining budget
\* *n_samp of a process, an unsigned int, never wraps below zero.
C27_BudgetNeverWraps ==
    /\ sum_mpi([p \in Procs |-> NKept(p)], NProcs) <= comp.target
    /\ \A p \in Procs : comp.sh[p].n_samp >= 0

\* the same for a vector that holds at most one zero
C27_NoWrapOneZero ==
    Cardinality({<<p, i>> \in Procs \X (1 .. VecLen) :
                    i \in DOMAIN comp.vals[p] /\ comp.vals[p][i] = 0}) <= 1
        => C27_BudgetNeverWraps

(***************************************************************************)
(* sys_comp on the shards against sys_comp on the whole array              *)
(***************************************************************************)
\* the shards of the processes below n, one after the other
RECURSIVE ConcatTo(_, _)
ConcatTo(f, n) == IF n = 0 THEN << >> ELSE ConcatTo(f, n - 1) \o f[n - 1]

\* sys_comp of one process that holds the whole array: the residual norm is
\* the only entry of loc_norms
SingleShard ==
    sys_comp(ConcatTo(comp.vals, NProcs),
             [q \in Procs |-> IF q = 0 THEN sum_mpi(comp.loc_norms, NProcs) ELSE 0],
             comp.n_samp[0], ConcatTo(comp.keep_idx, NProcs), comp.rand_num, 0)

\* the elements that were not kept and hold a chosen pivot k
Holders(k) ==
    {e \in Elems : /\ ~Kept(e)
                   /\ k \in PivotsIn(e)
                   /\ comp.out[e[1]].vec_vals[e[2]].num /= 0}

\* C24: sys_comp on the contiguous blocks of the processes, each started
\* by seed_sys from the gathered norms, leaves on every element the value
\* and the keep_exact flag that sys_comp of a single process leaves on the
\* concatenated array with the same draw, and every pivot, one on the first
\* element of a block included, is given to exactly one element.
C24_SameAsSingleShard ==
    comp.phase = "sampled" =>
        /\ \A one \in {SingleShard} :
              \A e \in Elems :
                 LET at == Len(ConcatTo(comp.vals, e[1])) + e[2]
                 IN /\ comp.out[e[1]].vec_vals[e[2]] = one.vec_vals[at]
                    /\ comp.out[e[1]].keep_exact[e[2]] = one.keep_exact[at]
        /\ (comp.n_samp[0] >= 1 /\ ResNorm > 0) =>
              \A k \in 0 .. (comp.n_samp[0] - 1) : Cardinality(Holders(k)) = 1

\* a pivot above zero that is exactly the lower bound of the second process,
\* whose first element takes it, while the first process holds residual norm
C24_Witness ==
    /\ comp.phase = "sampled"
    /\ comp.n_samp[0] >= 1
    /\ Len(comp.vals[1]) >= 1
    /\ ~Kept(<<1, 1>>)
    /\ CumBefore(<<1, 1>>) > 0
    /\ \E k \in PivotsIn(<<1, 1>>) :
          (comp.rand_num.num + k * comp.rand_num.den) * ResNorm =
              CumBefore(<<1, 1>>) * comp.n_samp[0] * comp.rand_num.den
    /\ comp.out[1].vec_vals[1].num /= 0

(***************************************************************************)
(* Properties of comp_sub: the number of pairs returned                    *)
(***************************************************************************)
SubElems == {<<p, i>> \in Procs \X (1 .. SubLen) : i <= Len(comp.in[p].values)}

\* the number of columns that find_keep_sub and sys_sub read for element e
NSub(e) ==
    IF comp.in[e[1]].sub_sizes.null THEN comp.in[e[1]].sub_cols
    ELSE comp.in[e[1]].sub_sizes.at[e[2]]

\* the sub-choices of nonzero weight of element e
NChoices(e) ==
    LET in == comp.in[e[1]]
    IN IF in.values[e[2]] = 0 THEN 0
       ELSE IF in.n_div[e[2]] > 0 THEN in.n_div[e[2]]
       ELSE Cardinality({j \in 1 .. NSub(e) : in.sub_weights[e[2]][j] /= 0})

RECURSIVE SumChoices(_)
SumChoices(S) ==
    IF S = {} THEN 0
    ELSE LET e == CHOOSE x \in S : TRUE IN NChoices(e) + SumChoices(S \ {e})

TotalChoices == SumChoices(SubElems)

TotalReturned == sum_mpi(comp.ret, NProcs)

\* the rows that are read sum to one and the matrices have the same columns
SubWellFormed ==
    /\ \A p \in Procs : comp.in[p].keep_cols = comp.in[p].sub_cols
    /\ \A e \in SubElems :
          comp.in[e[1]].n_div[e[2]] = 0 =>
              sum_wt(comp.in[e[1]].sub_weights[e[2]], NSub(e)) = SubDen

\* C25: with sub-weights that sum to one in every row, comp_sub returns on
\* all processes together exactly n_samp pairs when the input has at least
\* n_samp sub-choices of nonzero weight and all of them when it has fewer,
\* for every draw; find_keep_sub ends with the same remaining budget on
\* every process and sys_sub returns.
C25_ExactCount ==
    (comp.phase \in {"sub_done", "sub_used"} /\ SubWellFormed) =>
        /\ ~comp.hang
        /\ TotalReturned = Min(comp.n_samp, TotalChoices)
        /\ \A k \in {find_keep_sub(comp.in, comp.n_samp)} :
              \A p \in Procs : k.n_samp[p] = k.n_samp[0]

\* the same for inputs without a zero weight
C25_ExactCountNoZero ==
    (\A e \in SubElems : comp.in[e[1]].values[e[2]] /= 0) => C25_ExactCount

\* comp_sub never returns more pairs than the budget
C25_WithinBudget ==
    (comp.phase \in {"sub_done", "sub_used"} /\ SubWellFormed) =>
        TotalReturned <= comp.n_samp

(***************************************************************************)
(* Properties of multi_dot                                                 *)
(***************************************************************************)
\* how often the pair e occurs among the first n entries of the sequence s
RECURSIVE CountIn(_, _, _)
CountIn(s, e, n) ==
    IF n = 0 THEN 0 ELSE CountIn(s, e, n - 1) + (IF s[n] = e THEN 1 ELSE 0)

\* how often the processes together were given the element e
GivenTo(e) ==
    sum_mpi([p \in Procs |-> CountIn(comp.in[p], e, Len(comp.in[p]))], NProcs)

DotDone == comp.phase = "dot" /\ \A p \in Procs : comp.sh[p].pc = 310

\* no process is past the loop or in another collective while one waits in
\* a collective, the buffers never overflow, the vector is as it was, and
\* on return every process has received each nonzero element it owns as
\* often as it was given, and nothing else
DotSafe ==
    /\ err = "none"
    /\ comp.phase = "dot" => vec = comp.vec0
    /\ \A p \in Procs, q \in Procs :
          comp.phase = "dot" =>
             /\ comp.sh[p].pc = 310 => comp.sh[q].pc = 310
             /\ comp.sh[p].pc = 308 => comp.sh[q].pc = 308
             /\ comp.sh[p].pc = 307 => comp.sh[q].pc \in {287, 299, 307}
             /\ comp.sh[p].rounds = comp.sh[q].rounds
    /\ DotDone =>
          \A q \in Procs :
             /\ \A i \in 1 .. Len(comp.got[q]) : comp.got[q][i][2] /= 0
             /\ \A e \in InputKeys \X (DotVals \ {0}) :
                   CountIn(comp.got[q], e, Len(comp.got[q])) =
                      IF idx_to_proc(e[1]) = q THEN GivenTo(e) ELSE 0

\* C26: in multi_dot all processes run the same number of perform_dot
\* collectives whatever number of elements each contributes, the loop ends
\* on every process, Adder::add never throws for a full buffer, every
\* element with a nonzero value reaches its owner exactly once, and the
\* stored indices and values of the vector are unchanged.
C26_MultiDot == []DotSafe /\ <>DotDone

\* all processes returned after three rounds with buffers of one element:
\* one process gave nothing, another two nonzero elements and a zero
C26_Witness ==
    /\ comp.phase = "dot"
    /\ DotDone
    /\ add_size = 1
    /\ \E p \in Procs, q \in Procs :
          /\ comp.in[p] = << >>
          /\ Len(comp.in[q]) = 2
          /\ \A i \in 1 .. 2 : comp.in[q][i][2] /= 0
          /\ comp.sh[p].rounds = 3
          /\ comp.sh[p].tot_dprod + comp.sh[q].tot_dprod >= 1
          /\ comp.got[p] /= << >>

C26_Terminates == <>DotDone

(***************************************************************************)
(* Properties of the free stack                                            *)
(***************************************************************************)
OnStack(v) == {v.vec_stack_[i] : i \in 1 .. Len(v.vec_stack_)}

ActiveSlots(v) == {pos \in Slots(v) : v.active_pos_[pos]}

\* C28: on every process, after any sequence of operations, every position
\* below curr_size_ is either active or on the stack of free positions and
\* never both, the stack holds no position twice and none at or above
\* curr_size_, n_nonz_ is the number of active slots, and a second
\* del_at_pos of a position changes nothing after the first.
C28_FreeStack ==
    \A p \in Procs :
        LET v == vec[p]
        IN /\ \A pos \in 0 .. (v.curr_size_ - 1) :
                 v.active_pos_[pos] <=> pos \notin OnStack(v)
           /\ Cardinality(OnStack(v)) = Len(v.vec_stack_)
           /\ \A pos \in OnStack(v) : pos < v.curr_size_
           /\ v.n_nonz_ = Cardinality(ActiveSlots(v))
           /\ \A pos \in 0 .. (v.curr_size_ - 1) :
                 \A w \in {del_at_pos(v, pos)} : del_at_pos(w, pos) = w

\* a process with a free position below an active slot
C28_Witness ==
    \E p \in Procs :
        \E pos \in OnStack(vec[p]), act \in ActiveSlots(vec[p]) : pos < act

\* add_elements gave a freed position to a new slot
C28_Reused ==
    \E p \in Procs :
        \E i \in 1 .. Len(made[p]) : made[p][i].top /= -1 /\ vec[p].n_nonz_ >= 1

(***************************************************************************)
(* The order of the contributions in perform_add                           *)
(***************************************************************************)
\* the orders in which the entries of a batch can arrive
Orders(batch) ==
    {[i \in 1 .. Len(batch) |-> batch[f[i]]] :
        f \in {g \in [1 .. Len(batch) -> 1 .. Len(batch)] :
                  \A i \in 1 .. Len(batch), j \in 1 .. Len(batch) :
                     g[i] = g[j] => i = j}}

\* add_elements leaves the same indices and values for every order of the
\* batch that process q is about to receive
SameForAllOrders(q, origin) ==
    \A r \in {add_elements(vec[q], recv_all(send_, q, 0), origin)} :
       \A other \in Orders(recv_all(send_, q, 0)) :
          \A t \in {add_elements(vec[q], other, origin)} :
             t.err = r.err /\ Pairs(t.v) = Pairs(r.v)

\* C29: the indices and values of the vector after perform_add do not
\* depend on the order in which add_elements processes the buffered
\* contributions, for any batch that mixes contributions with and without
\* the initiator flag and any assignment of them to the sending processes.
C29_OrderIndependent ==
    \A q \in Procs, origin \in VecIdx : SameForAllOrders(q, origin)

\* the same for batches in which every contribution has the initiator flag
C29_InitiatorsCommute ==
    \A q \in Procs, origin \in VecIdx :
       (\A i \in 1 .. Len(recv_all(send_, q, 0)) :
           read_bit(recv_all(send_, q, 0)[i][1], n_bits) = 1)
          => SameForAllOrders(q, origin)

(***************************************************************************)
(* The one-norm after find_preserve and sys_comp                           *)
(***************************************************************************)
\* the one-norm of the vector given to find_preserve
InputNorm ==
    SumSeq([q \in 1 .. NProcs |->
               SumSeq([i \in 1 .. Len(comp.vals[q - 1]) |-> Abs(comp.vals[q - 1][i])],
                      Len(comp.vals[q - 1]))], NProcs)

\* the one-norm of the vector that sys_comp left, in units of 1 / n_samp
OutNorm ==
    SumSeq([q \in 1 .. NProcs |->
               SumSeq([i \in 1 .. Len(comp.vals[q - 1]) |->
                          Abs(Scaled(comp.out[q - 1].vec_vals[i], comp.n_samp[q - 1]))],
                      Len(comp.vals[q - 1]))], NProcs)

\* loc_norms[p] as sys_comp leaves it on process p, in units of 1 / n_samp:
\* the magnitudes of the kept elements and tmp_glob_norm / n_samp for every
\* sampled element
WrittenBack(p) ==
    comp.n_samp[p] * comp.out[p].kept_norm
       + comp.out[p].picked * SumSeq([q \in 1 .. NProcs |-> comp.loc_norms[q - 1]], NProcs)

\* C30: with a budget m >= 1 left by find_preserve, the loc_norms that
\* sys_comp writes back sum over the processes to the one-norm of the
\* compressed vector and to the one-norm of the input, for every input,
\* split and draw; and keep_exact[i] is 1 on return exactly for the
\* elements that were nonzero on entry and that sys_comp set to zero.
C30_NormPreserved ==
    (comp.phase = "sampled" /\ comp.n_samp[0] >= 1) =>
        /\ SumSeq([q \in 1 .. NProcs |-> WrittenBack(q - 1)], NProcs)
              = comp.n_samp[0] * InputNorm
        /\ OutNorm = comp.n_samp[0] * InputNorm
        /\ \A e \in Elems :
              comp.out[e[1]].keep_exact[e[2]] =
                 IF comp.vals[e[1]][e[2]] /= 0 /\ comp.out[e[1]].vec_vals[e[2]].num = 0
                 THEN 1 ELSE 0

\* a draw after which two processes hold a kept element, a sampled element
\* or an element set to zero, all three present
C30_Witness ==
    /\ comp.phase = "sampled"
    /\ comp.n_samp[0] >= 1
    /\ \E e \in Elems : Kept(e) /\ comp.vals[e[1]][e[2]] /= 0
    /\ \E e \in Elems : ~Kept(e) /\ comp.out[e[1]].vec_vals[e[2]].num /= 0
    /\ \E e \in Elems : comp.out[e[1]].keep_exact[e[2]] = 1
    /\ \E p \in Procs, q \in Procs :
          p /= q /\ comp.out[p].picked >= 1 /\ comp.out[q].kept_norm >= 1

====
